---- MODULE Spec2Model ----
(***************************************************************************)
(* A model of the HUB75 LED display driver (leddisplay.c): the brightness  *)
(* controller, the descriptor planner run by leddisplay_init, the module   *)
(* life cycle (init / shutdown) and the double-buffer publish protocol     *)
(* between the producer task and the parallel stream engine.               *)
(*                                                                         *)
(* The build modelled is the one without gamma correction                  *)
(* (neither CONFIG_LEDDISPLAY_CORR_BRIGHT_STRICT nor _MODIFIED).           *)
(* The stream engine (i2s_parallel.c) is known by its header only; its     *)
(* behaviour is the one the specification states for it.                   *)
(***************************************************************************)
EXTENDS Integers, Sequences, FiniteSets, TLC

VARIABLES
    cfg,                        \* the build configuration (sdkconfig), fixed
    s_frames,                   \* "NULL" or the block holding both bitplane buffers
    s_current_frame,            \* index of the drawing buffer
    s_lsb_msb_transition_bit,   \* t
    s_dmadesc_a,                \* "NULL" or the block of descriptor ring A
    s_dmadesc_b,                \* "NULL" or the block of descriptor ring B
    s_brightness_val,           \* column cutoff
    s_brightness_percent,       \* percent
    s_shift_complete_sem,       \* the semaphore handle: "NULL" or "sem"
    sem_count,                  \* tokens held by the binary semaphore
    heap,                       \* the blocks currently allocated
    i2s,                        \* the stream engine
    pc,                         \* where the producer task is
    life,                       \* "boot", "up", "failed", "down"
    last,                       \* the last API call that returned: op, arg, ret
    calls,                      \* the last brightness calls, oldest first
    mem,                        \* what the allocator reports: largest, total
    planned,                    \* the planner's locals at the end of its search
    eof_seen,                   \* an end-of-list happened since the last init
    acquired,                   \* a semaphore take succeeded since the last init
    bitplanes,                  \* the words of s_frames[0] and s_frames[1]
    lldesc,                     \* the descriptors of ring A and ring B
    staging,                    \* the application's leddisplay_frame_t
    ncalls,                     \* drawing calls made so far
    draw,                       \* the last drawing call: op, x, y, rgb
    painted,                    \* per buffer, the colours last encoded at the
                                \* pixel (DrawX, DrawY) and at the one R rows
                                \* below, and the brightness percent at which
                                \* the buffer was last encoded as a whole
    walk                        \* a traversal of a descriptor ring: the ring,
                                \* the descriptor it is at, the descriptors
                                \* passed and, per row and bitplane, how often
                                \* the plane was emitted and how many
                                \* descriptors start at it

vars == << cfg, s_frames, s_current_frame, s_lsb_msb_transition_bit, s_dmadesc_a,
           s_dmadesc_b, s_brightness_val, s_brightness_percent,
           s_shift_complete_sem, sem_count, heap, i2s, pc, life, last, calls,
           mem, planned, eof_seen, acquired, bitplanes, lldesc, staging,
           ncalls, draw, painted, walk >>

\* the memory the drawing calls work on, and their count
drawVars == << bitplanes, lldesc, staging, ncalls, draw, painted, walk >>

----------------------------------------------------------------------------
\* Program constants

NUM_FRAME_BUFFERS == 2

COLOR_DEPTH_BITS == 8

\* sizeof(lldesc_t): three 32-bit words
SIZEOF_LLDESC == 12

\* the panel types a build can select with CONFIG_LEDDISPLAY_TYPE_...:
\* LEDDISPLAY_WIDTH x LEDDISPLAY_HEIGHT and the scan rate
PanelTypes ==
    { [W |-> 32, H |-> 16, scan |-> 4], [W |-> 32, H |-> 16, scan |-> 8],
      [W |-> 32, H |-> 32, scan |-> 8], [W |-> 32, H |-> 32, scan |-> 16],
      [W |-> 64, H |-> 32, scan |-> 8], [W |-> 64, H |-> 32, scan |-> 16],
      [W |-> 64, H |-> 64, scan |-> 32] }

\* #define LEDDISPLAY_ROWS_IN_PARALLEL of the branch of panel type g
RowsInParallel(g) ==
    CASE g = [W |-> 32, H |-> 16, scan |-> 4]  -> 4
      [] g = [W |-> 32, H |-> 16, scan |-> 8]  -> 2
      [] g = [W |-> 32, H |-> 32, scan |-> 8]  -> 4
      [] g = [W |-> 32, H |-> 32, scan |-> 16] -> 2
      [] g = [W |-> 64, H |-> 32, scan |-> 8]  -> 4
      [] g = [W |-> 64, H |-> 32, scan |-> 16] -> 2
      [] g = [W |-> 64, H |-> 64, scan |-> 32] -> 2

\* the panel types the source does not mark "doesn't work"
Geometries == { g \in PanelTypes : RowsInParallel(g) = 2 }

\* the values I2S_CLOCK_SPEED can take
Clocks == { 13333334, 16000000, 20000000, 26666667 }

LEDDISPLAY_WIDTH == cfg.W

LEDDISPLAY_HEIGHT == cfg.H

Geometry == [W |-> LEDDISPLAY_WIDTH, H |-> LEDDISPLAY_HEIGHT, scan |-> cfg.scan]

LEDDISPLAY_ROWS_IN_PARALLEL == RowsInParallel(Geometry)

PIXELS_PER_LATCH == (LEDDISPLAY_WIDTH * LEDDISPLAY_HEIGHT) \div LEDDISPLAY_HEIGHT

ROWS_PER_FRAME == LEDDISPLAY_HEIGHT \div LEDDISPLAY_ROWS_IN_PARALLEL

I2S_CLOCK_SPEED == cfg.clk

----------------------------------------------------------------------------
\* Bounds of the model

\* brightness arguments range over -BrightOver .. 100 + BrightOver
BrightOver == 3

\* free-memory inputs lie within MemSlack bytes of each planner threshold
MemSlack == 1

\* minimum-refresh inputs lie within RateSlack Hz of the rate of some t
RateSlack == 1

\* the drawing calls are followed for MaxDraw calls after leddisplay_init,
\* those on the staging frame for MaxFrame calls
MaxDraw == 3

MaxFrame == 2

\* the pixel the drawing calls paint: (DrawX, DrawY) and the one R rows below
DrawX == 3

DrawY == 3

\* the drawing calls run with the transition bit the search arrives at when
\* the free memory is just above what DrawTransitionBit requires
DrawTransitionBit == 3

----------------------------------------------------------------------------
\* Brightness controller

\* the scaling of leddisplay_set_brightness for 0 < brightness < 100
brightness_val(brightness) ==
    ((((1000 * LEDDISPLAY_WIDTH) * brightness) + 500) \div 1000) \div 100

set_brightness_no_upper(percent, brightness) ==
    IF brightness <= 0
    THEN [val |-> 0, percent |-> 0, ret |-> percent]
    ELSE [val |-> brightness_val(brightness), percent |-> brightness,
          ret |-> percent]

\* leddisplay_set_brightness: the new (val, percent) and the value returned
set_brightness(percent, brightness) ==
    IF brightness <= 0
    THEN [val |-> 0, percent |-> 0, ret |-> percent]
    ELSE IF brightness >= 100
    THEN [val |-> LEDDISPLAY_WIDTH, percent |-> 100, ret |-> percent]
    ELSE [val |-> brightness_val(brightness), percent |-> brightness,
          ret |-> percent]

\* leddisplay_get_brightness
get_brightness == s_brightness_percent

----------------------------------------------------------------------------
\* Descriptor planner (leddisplay_init, the search for the transition bit)

Pow2(n) == 2 ^ n

\* for (i = t + 1; i < COLOR_DEPTH_BITS; i++) n += (1 << (i - t - 1));
RECURSIVE desc_count_loop(_, _, _)
desc_count_loop(i, t, n) ==
    IF i < COLOR_DEPTH_BITS
    THEN desc_count_loop(i + 1, t, n + Pow2(i - t - 1))
    ELSE n

numDescriptorsPerRow(t) == desc_count_loop(t + 1, t, 1)

ramRequiredOf(R, t) ==
    numDescriptorsPerRow(t) * R * NUM_FRAME_BUFFERS * SIZEOF_LLDESC

\* 1000000000000UL, most significant decimal digit first
PS_PER_SECOND_DIGITS == << 1, 0, 0, 0, 0, 0, 0, 0, 0, 0, 0, 0, 0 >>

\* digits \div d by long division: the literal above exceeds the range of the
\* integers of the model checker, its quotient by a clock rate does not
RECURSIVE long_div(_, _, _, _)
long_div(digits, d, q, r) ==
    IF digits = << >>
    THEN q
    ELSE LET cur == r * 10 + Head(digits)
         IN  long_div(Tail(digits), d, q * 10 + (cur \div d), cur % d)

psPerClockOf(clk) == long_div(PS_PER_SECOND_DIGITS, clk, 0, 0)

nsPerLatchOf(W, clk) == (W * psPerClockOf(clk)) \div 1000

\* for (i = t + 1; i < COLOR_DEPTH_BITS; i++)
\*     nsPerRow += (1 << (i - t - 1)) * (COLOR_DEPTH_BITS - i) * nsPerLatch;
RECURSIVE ns_per_row_loop(_, _, _, _)
ns_per_row_loop(i, t, nsPerLatch, nsPerRow) ==
    IF i < COLOR_DEPTH_BITS
    THEN ns_per_row_loop(i + 1, t, nsPerLatch,
             nsPerRow + Pow2(i - t - 1) * (COLOR_DEPTH_BITS - i) * nsPerLatch)
    ELSE nsPerRow

refreshRateOf(W, R, clk, t) ==
    LET nsPerLatch == nsPerLatchOf(W, clk)
        nsPerRow   == ns_per_row_loop(t + 1, t, nsPerLatch,
                                      COLOR_DEPTH_BITS * nsPerLatch)
        nsPerFrame == nsPerRow * R
    IN  1000000000 \div nsPerFrame

TransitionBits == 0 .. (COLOR_DEPTH_BITS - 1)

\* the two calculations for every panel type, clock and t, computed once
RamRequiredTable ==
    [ g \in PanelTypes |-> [ t \in TransitionBits |->
        ramRequiredOf(g.H \div RowsInParallel(g), t) ] ]

RefreshRateTable ==
    [ g \in PanelTypes |-> [ clk \in Clocks |-> [ t \in TransitionBits |->
        refreshRateOf((g.W * g.H) \div g.H,
                      g.H \div RowsInParallel(g), clk, t) ] ] ]

\* ramRequired for this value of s_lsb_msb_transition_bit
ramRequired(t) == RamRequiredTable[Geometry][t]

\* refreshRate for this value of s_lsb_msb_transition_bit
refreshRate(t) == RefreshRateTable[Geometry][I2S_CLOCK_SPEED][t]

ramOkay_le(t, largestBlockFree, totalFree) ==
    /\ ramRequired(t) <= largestBlockFree
    /\ ramRequired(t) <= totalFree - cfg.preserve

\* (ramRequired < largestBlockFree) &&
\* (ramRequired < (totalFree - CONFIG_LEDDISPLAY_PRESERVE_RAM_SIZE))
ramOkay(t, largestBlockFree, totalFree) ==
    /\ ramRequired(t) < largestBlockFree
    /\ ramRequired(t) < totalFree - cfg.preserve

\* refreshRate >= CONFIG_LEDDISPLAY_MIN_FRAME_RATE
refreshOkay(t) == refreshRate(t) >= cfg.min_rate

\* while (1) { ... }: the transition bit the search stops at
RECURSIVE transition_bit_search(_, _, _)
transition_bit_search(t, largestBlockFree, totalFree) ==
    IF ramOkay(t, largestBlockFree, totalFree) /\ refreshOkay(t)
    THEN t
    ELSE IF t < COLOR_DEPTH_BITS - 1
    THEN transition_bit_search(t + 1, largestBlockFree, totalFree)
    ELSE t

plan_result_mem_last(ram_ok, refresh_ok) ==
    IF ram_ok /\ refresh_ok THEN "ESP_OK"
    ELSE IF ~ram_ok THEN "ESP_ERR_NO_MEM"
    ELSE "ESP_FAIL"

\* "are we happy?": res after the search
plan_result(ram_ok, refresh_ok) ==
    IF ram_ok /\ refresh_ok THEN "ESP_OK"
    ELSE IF ~refresh_ok THEN "ESP_FAIL"
    ELSE "ESP_ERR_NO_MEM"

\* the planner: the locals and res when the search is over
planner(largestBlockFree, totalFree) ==
    LET t   == transition_bit_search(0, largestBlockFree, totalFree)
        rOk == ramOkay(t, largestBlockFree, totalFree)
        fOk == refreshOkay(t)
    IN  [ t                    |-> t,
          numDescriptorsPerRow |-> numDescriptorsPerRow(t),
          refreshRate          |-> refreshRate(t),
          ramOkay              |-> rOk,
          refreshOkay          |-> fOk,
          res                  |-> plan_result(rOk, fOk) ]

----------------------------------------------------------------------------
\* The module after reset: statics are zero, nothing is allocated

\* the inputs of a call of leddisplay_init when nothing succeeds
NoInput ==
    [ framesOk |-> FALSE, aOk |-> FALSE, bOk |-> FALSE, setupOk |-> FALSE,
      startRing |-> 0, mem |-> [largest |-> 0, total |-> 0] ]

\* the record of a call: the operation, its integer argument and result, and
\* for leddisplay_init its inputs and its esp_err_t
Call(op, arg, ret) ==
    [op |-> op, arg |-> arg, ret |-> ret, in |-> NoInput, res |-> "none"]

NoCall == Call("none", 0, 0)

NoPlan ==
    [ t |-> 0, numDescriptorsPerRow |-> 0, refreshRate |-> 0,
      ramOkay |-> FALSE, refreshOkay |-> FALSE, res |-> "none" ]

\* no bitplane buffers, no descriptor rings, no staging frame
NoPlanes == << >>

NoRings == << >>

NoFrame == << >>

Black == << 0, 0, 0 >>

\* no traversal
NoWalk == [ring |-> "a", at |-> 0, steps |-> 0, emitted |-> << >>,
           starts |-> << >>, latched |-> [row |-> 0, plane |-> 0],
           own |-> << >>, shown |-> << >>]

NoDraw == [op |-> "none", x |-> 0, y |-> 0, rgb |-> Black]

\* what both buffers show at the two pixels once they are cleared, at
\* brightness 0
Unpainted ==
    [f \in 0 .. (NUM_FRAME_BUFFERS - 1) |->
        [top |-> Black, bot |-> Black, percent |-> 0]]

Boot ==
    /\ s_frames = "NULL"
    /\ s_current_frame = 0
    /\ s_lsb_msb_transition_bit = 0
    /\ s_dmadesc_a = "NULL"
    /\ s_dmadesc_b = "NULL"
    /\ s_brightness_val = 0
    /\ s_brightness_percent = 0
    /\ s_shift_complete_sem = "NULL"
    /\ sem_count = 0
    /\ heap = {}
    /\ i2s = [running |-> FALSE, ring |-> 0, next |-> 0, cb |-> FALSE]
    /\ pc = "idle"
    /\ life = "boot"
    /\ last = NoCall
    /\ calls = [before |-> [op |-> "none", arg |-> 0], restored |-> FALSE]
    /\ planned = NoPlan
    /\ eof_seen = FALSE
    /\ acquired = FALSE
    /\ bitplanes = NoPlanes
    /\ lldesc = NoRings
    /\ ncalls = 0
    /\ draw = NoDraw
    /\ painted = Unpainted

\* the configurations of the planner inputs that are left to the sdkconfig
MinFrameRate == 100

PreserveRam == 10000

----------------------------------------------------------------------------
\* The flip semaphore (FreeRTOS binary semaphore)

\* xSemaphoreCreateBinary / xSemaphoreCreateBinaryStatic with one token
xSemaphoreCreateBinary_available(M) ==
    [M EXCEPT !.sem = "sem", !.count = 1,
              !.heap = IF cfg.static_alloc THEN @ ELSE @ \cup {"sem"}]

\* xSemaphoreCreateBinary / xSemaphoreCreateBinaryStatic: the semaphore is
\* created empty; without static allocation it is a block of the heap
xSemaphoreCreateBinary(M) ==
    [M EXCEPT !.sem = "sem", !.count = 0,
              !.heap = IF cfg.static_alloc THEN @ ELSE @ \cup {"sem"}]

xSemaphoreGiveFromISR_counting(count) == count + 1

\* xSemaphoreGiveFromISR on a binary semaphore: a give while the token is
\* there leaves it there
xSemaphoreGiveFromISR(count) == IF count < 1 THEN count + 1 ELSE count

cb_without_give(count) == count

\* s_shift_complete_sem_cb: the completion callback
s_shift_complete_sem_cb(count) == xSemaphoreGiveFromISR(count)

\* the handle refers to a semaphore that exists
SemLive(M) ==
    M.sem # "NULL" /\ (cfg.static_alloc \/ "sem" \in M.heap)

----------------------------------------------------------------------------
\* The stream engine, as the specification describes it: it iterates one ring,
\* and at each end-of-list switches to the ring last asked for and fires the
\* completion callback

i2s_parallel_setup(e, ring) ==
    [e EXCEPT !.running = TRUE, !.ring = ring, !.next = ring]

i2s_parallel_flip_to_buffer(e, bufid) == [e EXCEPT !.next = bufid]

i2s_parallel_stop(e) == [e EXCEPT !.running = FALSE]

i2s_parallel_set_shiftcomplete_cb(e) == [e EXCEPT !.cb = TRUE]

----------------------------------------------------------------------------
\* The words of the bitplane buffers and the three encoders.  A buffer is
\* rowdata[y].rowbits[i].pixel[ix], y in 0 .. R-1, i in 0 .. D-1, ix in
\* 0 .. W-1; a word is the integer value of the uint16_t.  The encoders take
\* the panel type g, so that their results can be tabulated.

BIT(bit) == 2 ^ bit

BIT_R1 == BIT(0)

BIT_G1 == BIT(1)

BIT_B1 == BIT(2)

BIT_R2 == BIT(3)

BIT_G2 == BIT(4)

BIT_B2 == BIT(5)

BIT_LAT == BIT(6)

BIT_OE == BIT(7)

BIT_A == BIT(8)

BIT_B == BIT(9)

BIT_C == BIT(10)

BIT_D == BIT(11)

BIT_E == BIT(12)

\* (n & b) != 0 for b a single bit; n is a two's complement int, possibly -1
AndBit(n, b) == ((n \div b) % 2) = 1

\* LEDDISPLAY_NEED_E_GPIO: defined for the 64x64 panel only
NEED_E_GPIO(g) == g.W = 64 /\ g.H = 64

RowsPerFrame(g) == g.H \div RowsInParallel(g)

PixelsPerLatch(g) == (g.W * g.H) \div g.H

\* the address lines for gpioRowAddress
address_bits(g, gpioRowAddress) ==
    (IF AndBit(gpioRowAddress, BIT(0)) THEN BIT_A ELSE 0)
    + (IF AndBit(gpioRowAddress, BIT(1)) THEN BIT_B ELSE 0)
    + (IF AndBit(gpioRowAddress, BIT(2)) THEN BIT_C ELSE 0)
    + (IF AndBit(gpioRowAddress, BIT(3)) THEN BIT_D ELSE 0)
    + (IF NEED_E_GPIO(g) /\ AndBit(gpioRowAddress, BIT(4)) THEN BIT_E ELSE 0)

\* int gpioRowAddress = (bitplane_ix == 0) ? y_coord - 1 : y_coord;
gpioRowAddress(y_coord, bitplane_ix) ==
    IF bitplane_ix = 0 THEN y_coord - 1 ELSE y_coord

lsbBrightness_unshifted(t, bval, bitplane_ix) == bval

\* s_brightness_val >> (s_lsb_msb_transition_bit - bitplane_ix + 1)
lsbBrightness(t, bval, bitplane_ix) == bval \div (2 ^ (t - bitplane_ix + 1))

oe_set_high_planes_only(g, t, bval, x_coord, bitplane_ix) ==
    \/ x_coord = 0
    \/ x_coord = PixelsPerLatch(g) - 1
    \/ (bitplane_ix = 0 \/ bitplane_ix > t) /\ x_coord >= bval

oe_set_at_full_brightness(g, t, bval, x_coord, bitplane_ix) ==
    \/ x_coord = 0
    \/ x_coord = PixelsPerLatch(g) - 1

oe_set_below_cutoff(g, t, bval, x_coord, bitplane_ix) ==
    \/ x_coord = 0
    \/ x_coord = PixelsPerLatch(g) - 1
    \/ (bitplane_ix = 0 \/ bitplane_ix > t) /\ x_coord <= bval
    \/ /\ bitplane_ix # 0 /\ bitplane_ix <= t
       /\ x_coord <= bval \div (2 ^ (t - bitplane_ix + 1))

oe_set_by_cutoff_only(g, t, bval, x_coord, bitplane_ix) ==
    \/ (bitplane_ix = 0 \/ bitplane_ix > t) /\ x_coord >= bval
    \/ /\ bitplane_ix # 0 /\ bitplane_ix <= t
       /\ x_coord >= lsbBrightness(t, bval, bitplane_ix)

\* whether some statement of the encoder sets BIT_OE in v
oe_set(g, t, bval, x_coord, bitplane_ix) ==
    \/ x_coord = 0
    \/ x_coord = PixelsPerLatch(g) - 1
    \/ (bitplane_ix = 0 \/ bitplane_ix > t) /\ x_coord >= bval
    \/ /\ bitplane_ix # 0 /\ bitplane_ix <= t
       /\ x_coord >= lsbBrightness(t, bval, bitplane_ix)

lat_set_at_first_column(g, x_coord) == x_coord = 0

\* whether BIT_LAT is set in v
lat_set(g, x_coord) == x_coord = PixelsPerLatch(g) - 1

\* v before the colour bits: address, output enable, latch
control_bits(g, t, bval, x_coord, y_coord, bitplane_ix) ==
    address_bits(g, gpioRowAddress(y_coord, bitplane_ix))
    + (IF oe_set(g, t, bval, x_coord, bitplane_ix) THEN BIT_OE ELSE 0)
    + (IF lat_set(g, x_coord) THEN BIT_LAT ELSE 0)

\* the colour bits of one half: rgb is << red, green, blue >>
colour_bits(rgb, mask, r, gr, b) ==
    (IF AndBit(rgb[1], mask) THEN r ELSE 0)
    + (IF AndBit(rgb[2], mask) THEN gr ELSE 0)
    + (IF AndBit(rgb[3], mask) THEN b ELSE 0)

kept_bits_dropped(old, r, gr, b) == 0

\* the colour bits of one half as they are in the word old
kept_bits(old, r, gr, b) ==
    (IF AndBit(old, r) THEN r ELSE 0)
    + (IF AndBit(old, gr) THEN gr ELSE 0)
    + (IF AndBit(old, b) THEN b ELSE 0)

\* the index a word for column x_coord is stored at: x - 1 for odd x, x + 1
\* for even x
tmp_x_coord_unswapped(x_coord) == x_coord

tmp_x_coord_next(x_coord) == x_coord + 1

tmp_x_coord(x_coord) == IF x_coord % 2 # 0 THEN x_coord - 1 ELSE x_coord + 1

\* leddisplay_pixel_xy_rgb: the word stored for one bitplane, old being the
\* word that is there
pixel_xy_word(g, t, bval, x_coord, y_coord, paint_top_half, rgb, bitplane_ix, old) ==
    control_bits(g, t, bval, x_coord, y_coord, bitplane_ix)
    + (IF paint_top_half
       THEN colour_bits(rgb, BIT(bitplane_ix), BIT_R1, BIT_G1, BIT_B1)
            + kept_bits(old, BIT_R2, BIT_G2, BIT_B2)
       ELSE colour_bits(rgb, BIT(bitplane_ix), BIT_R2, BIT_G2, BIT_B2)
            + kept_bits(old, BIT_R1, BIT_G1, BIT_B1))

\* the rowdata index leddisplay_pixel_xy_rgb addresses: y_coord, less
\* ROWS_PER_FRAME for the lower half of the panel
xy_row(g, y_coord) ==
    IF y_coord > RowsPerFrame(g) - 1 THEN y_coord - RowsPerFrame(g) ELSE y_coord

pixel_xy_paint_whole_pair(g, planes, cur, t, bval, x_coord, y_coord, rgb) ==
    LET top == ~(y_coord > RowsPerFrame(g) - 1)
        y   == xy_row(g, y_coord)
        ix  == tmp_x_coord(x_coord)
    IN  [planes EXCEPT ![cur][y] =
           [i \in 0 .. (COLOR_DEPTH_BITS - 1) |->
               [@[i] EXCEPT ![ix] =
                   pixel_xy_word(g, t, bval, x_coord, y, top, rgb, i, @),
                            ![x_coord] = 0]]]

\* the place of s_frames[cur].rowdata[y] in the allocation of
\* NUM_FRAME_BUFFERS frames of ROWS_PER_FRAME rows each, counted in rows
xy_flat_row(g, cur, y) == (cur * RowsPerFrame(g)) + y

\* whether leddisplay_pixel_xy_rgb addresses a row past the end of the
\* allocation of s_frames: with four rows in parallel the y_coord left by
\* one subtraction of ROWS_PER_FRAME can exceed ROWS_PER_FRAME - 1
xy_outside(g, cur, x_coord, y_coord) ==
    /\ x_coord < g.W
    /\ y_coord < g.H
    /\ xy_flat_row(g, cur, xy_row(g, y_coord)) >=
           NUM_FRAME_BUFFERS * RowsPerFrame(g)

\* leddisplay_pixel_xy_rgb after its range check.  rowdata[y] with
\* y > ROWS_PER_FRAME - 1 is a row of the frame that follows in the
\* allocation; past its end the stores leave the buffers as they are.
pixel_xy_paint(g, planes, cur, t, bval, x_coord, y_coord, rgb) ==
    LET top  == ~(y_coord > RowsPerFrame(g) - 1)
        y    == xy_row(g, y_coord)
        ix   == tmp_x_coord(x_coord)
        flat == xy_flat_row(g, cur, y)
    IN  IF flat >= NUM_FRAME_BUFFERS * RowsPerFrame(g)
        THEN planes
        ELSE [planes EXCEPT
                 ![flat \div RowsPerFrame(g)][flat % RowsPerFrame(g)] =
                    [i \in 0 .. (COLOR_DEPTH_BITS - 1) |->
                        [@[i] EXCEPT ![ix] =
                            pixel_xy_word(g, t, bval, x_coord, y, top, rgb,
                                          i, @)]]]

pixel_xy_rgb_wrapped(g, planes, cur, t, bval, x_coord, y_coord, rgb) ==
    pixel_xy_paint(g, planes, cur, t, bval, x_coord % g.W, y_coord % g.H, rgb)

\* leddisplay_pixel_xy_rgb on the buffers planes, cur being s_current_frame
pixel_xy_rgb(g, planes, cur, t, bval, x_coord, y_coord, rgb) ==
    IF x_coord >= g.W \/ y_coord >= g.H
    THEN planes
    ELSE pixel_xy_paint(g, planes, cur, t, bval, x_coord, y_coord, rgb)

pixel_fill_word_top_only(g, t, bval, x_coord, y_coord, rgb, bitplane_ix) ==
    control_bits(g, t, bval, x_coord, y_coord, bitplane_ix)
    + colour_bits(rgb, BIT(bitplane_ix), BIT_R1, BIT_G1, BIT_B1)

\* leddisplay_pixel_fill_rgb: the word for column x_coord
pixel_fill_word(g, t, bval, x_coord, y_coord, rgb, bitplane_ix) ==
    control_bits(g, t, bval, x_coord, y_coord, bitplane_ix)
    + colour_bits(rgb, BIT(bitplane_ix), BIT_R1, BIT_G1, BIT_B1)
    + colour_bits(rgb, BIT(bitplane_ix), BIT_R2, BIT_G2, BIT_B2)

\* leddisplay_pixel_fill_rgb on one buffer: index ix receives the word of
\* the column stored there
pixel_fill_buffer(g, t, bval, rgb) ==
    [y \in 0 .. (RowsPerFrame(g) - 1) |->
        [i \in 0 .. (COLOR_DEPTH_BITS - 1) |->
            [ix \in 0 .. (g.W - 1) |->
                pixel_fill_word(g, t, bval, tmp_x_coord(ix), y, rgb, i)]]]

\* leddisplay_pixel_fill_rgb on the buffers planes
pixel_fill_rgb(g, planes, cur, t, bval, rgb) ==
    [planes EXCEPT ![cur] = pixel_fill_buffer(g, t, bval, rgb)]

\* the pixel the reference loop visits in turn b of pass a: row by row as
\* written, row by row from the last pixel backwards, or column by column
loop_pixel(g, order, a, b) ==
    CASE order = "rows"     -> [x |-> b, y |-> a]
      [] order = "backwards" -> [x |-> g.W - 1 - b, y |-> g.H - 1 - a]
      [] order = "columns"  -> [x |-> a, y |-> b]

\* the number of passes of the reference loop and of turns in a pass
loop_passes(g, order) == IF order = "columns" THEN g.W ELSE g.H

loop_turns(g, order) == IF order = "columns" THEN g.H ELSE g.W

\* the inner loop of the reference loop, from turn b on
RECURSIVE loop_inner(_, _, _, _, _, _, _, _, _)
loop_inner(g, planes, cur, t, bval, rgb, order, a, b) ==
    IF b >= loop_turns(g, order)
    THEN planes
    ELSE LET at == loop_pixel(g, order, a, b)
         IN  CHOOSE done \in
                 { loop_inner(g, drawn, cur, t, bval, rgb, order, a, b + 1) :
                     drawn \in { pixel_xy_rgb(g, planes, cur, t, bval,
                                              at.x, at.y, rgb) } } : TRUE

\* the outer loop of the reference loop, from pass a on
RECURSIVE loop_outer(_, _, _, _, _, _, _, _)
loop_outer(g, planes, cur, t, bval, rgb, order, a) ==
    IF a >= loop_passes(g, order)
    THEN planes
    ELSE CHOOSE done \in
             { loop_outer(g, pass, cur, t, bval, rgb, order, a + 1) :
                 pass \in { loop_inner(g, planes, cur, t, bval, rgb,
                                       order, a, 0) } } : TRUE

\* the reference loop of leddisplay_pixel_fill_rgb, compiled out:
\* leddisplay_pixel_xy_rgb(x, y, red, green, blue) for every pixel
pixel_fill_by_xy(g, planes, cur, t, bval, rgb, order) ==
    loop_outer(g, planes, cur, t, bval, rgb, order, 0)

\* leddisplay_frame_update: the word for column x_coord of p_frame
frame_update_word(g, t, bval, p_frame, x_coord, y_coord, bitplane_ix) ==
    control_bits(g, t, bval, x_coord, y_coord, bitplane_ix)
    + colour_bits(p_frame[y_coord][x_coord], BIT(bitplane_ix),
                  BIT_R1, BIT_G1, BIT_B1)
    + colour_bits(p_frame[y_coord + RowsPerFrame(g)][x_coord], BIT(bitplane_ix),
                  BIT_R2, BIT_G2, BIT_B2)

\* the encoding loop of leddisplay_frame_update: the buffer it writes
frame_update_buffer(g, t, bval, p_frame) ==
    [y \in 0 .. (RowsPerFrame(g) - 1) |->
        [i \in 0 .. (COLOR_DEPTH_BITS - 1) |->
            [ix \in 0 .. (g.W - 1) |->
                frame_update_word(g, t, bval, p_frame, tmp_x_coord(ix), y, i)]]]

----------------------------------------------------------------------------
\* The colours the encoders have last put at the pixel (DrawX, DrawY) and at
\* the pixel RowsPerFrame rows below it, for each buffer.  A call of
\* leddisplay_pixel_xy_rgb paints the buffer and the half its stores go to:
\* rowdata[y] of s_frames[cur] with y > ROWS_PER_FRAME - 1 is a row of the
\* buffer that follows.

paint_xy(g, p, cur, x_coord, y_coord, rgb) ==
    LET top  == ~(y_coord > RowsPerFrame(g) - 1)
        flat == xy_flat_row(g, cur, xy_row(g, y_coord))
    IN  IF /\ x_coord = DrawX
           /\ flat < NUM_FRAME_BUFFERS * RowsPerFrame(g)
           /\ flat % RowsPerFrame(g) = DrawY
        THEN IF top
             THEN [p EXCEPT ![flat \div RowsPerFrame(g)].top = rgb]
             ELSE [p EXCEPT ![flat \div RowsPerFrame(g)].bot = rgb]
        ELSE p

paint_fill(p, cur, rgb) ==
    [p EXCEPT ![cur] = [top |-> rgb, bot |-> rgb,
                        percent |-> s_brightness_percent]]

paint_frame(g, p, cur, p_frame) ==
    [p EXCEPT ![cur] = [top |-> p_frame[DrawY][DrawX],
                        bot |-> p_frame[DrawY + RowsPerFrame(g)][DrawX],
                        percent |-> s_brightness_percent]]

----------------------------------------------------------------------------
\* The staging frame (leddisplay_frame_t): yx[y][x] is << red, green, blue >>

\* leddisplay_frame_clear
frame_clear(g) ==
    [y \in 0 .. (g.H - 1) |-> [x \in 0 .. (g.W - 1) |-> << 0, 0, 0 >>]]

\* leddisplay_frame_fill_rgb
frame_fill_rgb(g, rgb) ==
    [y \in 0 .. (g.H - 1) |-> [x \in 0 .. (g.W - 1) |-> rgb]]

\* leddisplay_frame_xy_rgb
frame_xy_rgb(g, p_frame, x_coord, y_coord, rgb) ==
    IF x_coord >= g.W \/ y_coord >= g.H
    THEN p_frame
    ELSE [p_frame EXCEPT ![y_coord][x_coord] = rgb]

----------------------------------------------------------------------------
\* The descriptor rings.  A ring is an array of desccount descriptors; a
\* descriptor names the words it covers (buffer, row, first bitplane, number
\* of bitplanes), its eof mark and the index of its successor in the same
\* array, NoNext for a NULL stqe_next.

NoNext == 0 - 1

\* a descriptor as heap_caps_malloc hands it out: nothing is known of it
RawDesc ==
    [ buf |-> NoNext, row |-> NoNext, plane |-> NoNext, size |-> 0,
      eof |-> NoNext, next |-> NoNext ]

\* the bytes between a block of the heap and the block allocated next: the
\* header the allocator keeps in front of a block
BlockGaps == {4, 8, 16}

\* the byte, counted from the end of the allocation of s_frames, that the
\* store of leddisplay_pixel_xy_rgb for bitplane_ix goes to when rowdata[y]
\* lies past that end
xy_store_byte(g, cur, x_coord, y_coord, bitplane_ix) ==
    ((xy_flat_row(g, cur, xy_row(g, y_coord))
         - (NUM_FRAME_BUFFERS * RowsPerFrame(g)))
        * (COLOR_DEPTH_BITS * g.W * 2))
    + (bitplane_ix * g.W * 2)
    + (tmp_x_coord(x_coord) * 2)

\* a descriptor one 16-bit half of which a store has overwritten, at byte
\* at of its three words (size, length, offset, sosf, eof, owner; buf;
\* qe.stqe_next): what the half held is no longer a value the driver wrote
lldesc_overwritten(d, at) ==
    IF at < 2 THEN [d EXCEPT !.size = NoNext]
    ELSE IF at < 4 THEN [d EXCEPT !.eof = NoNext]
    ELSE IF at < 8
    THEN [d EXCEPT !.buf = NoNext, !.row = NoNext, !.plane = NoNext]
    ELSE [d EXCEPT !.next = NoNext]

\* a descriptor array that starts start bytes after the end of s_frames,
\* after the stores at the bytes hits
ring_overwritten(ring, start, hits) ==
    [ring EXCEPT !.d =
        [k \in DOMAIN @ |->
            IF \E h \in hits : h >= start
                                /\ (h - start) \div SIZEOF_LLDESC = k
            THEN lldesc_overwritten(@[k],
                     (CHOOSE h \in hits :
                         h >= start /\ (h - start) \div SIZEOF_LLDESC = k)
                         - start - (k * SIZEOF_LLDESC))
            ELSE @[k]]]

\* the rings after a call of leddisplay_pixel_xy_rgb whose stores go past
\* the end of s_frames, s_dmadesc_a and s_dmadesc_b being the blocks
\* allocated next, gap bytes between one block and the next
xy_overwrite(g, rings, cur, x_coord, y_coord, gap) ==
    LET hits == { xy_store_byte(g, cur, x_coord, y_coord, i) :
                    i \in 0 .. (COLOR_DEPTH_BITS - 1) }
        len  == Cardinality(DOMAIN rings.a.d) * SIZEOF_LLDESC
    IN  [rings EXCEPT
            !.a = ring_overwritten(@, gap, hits),
            !.b = ring_overwritten(@, gap + len + gap, hits)]

\* i2s_parallel_link_dma_desc(&ring[off], prev, memory, size): the
\* descriptor is set up unmarked and unlinked, and made the successor of prev.
\* A write past the end of the array is recorded in over.
i2s_parallel_link_dma_desc(ring, off, prev, buf, row, plane, nplanes) ==
    IF off \notin DOMAIN ring.d
    THEN [ring EXCEPT !.over = TRUE]
    ELSE LET d == [ buf |-> buf, row |-> row, plane |-> plane,
                    size |-> nplanes, eof |-> 0, next |-> NoNext ]
             r == [ring EXCEPT !.d[off] = d]
         IN  IF prev = NoNext THEN r ELSE [r EXCEPT !.d[prev].next = off]

\* one pass of the body of the loops: a descriptor in each ring at
\* currentDescOffset
link_both(S, j, plane, nplanes) ==
    [ a    |-> i2s_parallel_link_dma_desc(S.a, S.off, S.prev, 0, j, plane, nplanes),
      b    |-> i2s_parallel_link_dma_desc(S.b, S.off, S.prev, 1, j, plane, nplanes),
      prev |-> S.off,
      off  |-> S.off + 1 ]

planes_from_one(i) == 1

\* sizeof(row_bit_t) * (COLOR_DEPTH_BITS - i): the bitplanes a descriptor
\* that starts at bitplane i covers
planes_from(i) == COLOR_DEPTH_BITS - i

\* for (int k = 0; k < (1 << (i - t - 1)); k++)
\* (S.off >= 0 always holds: the conjunct makes the model checker evaluate S
\* at each pass instead of at the end of the loops)
RECURSIVE ring_k_loop(_, _, _, _, _)
ring_k_loop(S, t, j, i, k) ==
    IF S.off >= 0 /\ k < Pow2(i - t - 1)
    THEN ring_k_loop(link_both(S, j, i, planes_from(i)), t, j, i, k + 1)
    ELSE S

\* for (int i = t + 1; i < COLOR_DEPTH_BITS; i++)
RECURSIVE ring_i_loop(_, _, _, _)
ring_i_loop(S, t, j, i) ==
    IF S.off >= 0 /\ i < COLOR_DEPTH_BITS
    THEN ring_i_loop(ring_k_loop(S, t, j, i, 0), t, j, i + 1)
    ELSE S

\* for (int j = 0; j < ROWS_PER_FRAME; j++)
RECURSIVE ring_j_loop(_, _, _, _)
ring_j_loop(S, t, rows, j) ==
    IF S.off >= 0 /\ j < rows
    THEN ring_j_loop(
             ring_i_loop(link_both(S, j, 0, COLOR_DEPTH_BITS), t, j, t + 1),
             t, rows, j + 1)
    ELSE S

end_markers_unlinked(ring, desccount) ==
    IF (desccount - 1) \notin DOMAIN ring.d
    THEN [ring EXCEPT !.over = TRUE]
    ELSE [ring EXCEPT !.d[desccount - 1].eof = 1]

\* s_dmadesc_x[desccount - 1].eof = 1; .qe.stqe_next = &s_dmadesc_x[0]
end_markers(ring, desccount) ==
    IF (desccount - 1) \notin DOMAIN ring.d
    THEN [ring EXCEPT !.over = TRUE]
    ELSE [ring EXCEPT !.d[desccount - 1].eof = 1, !.d[desccount - 1].next = 0]

\* fill DMA linked lists for both frames: the two arrays of desccount
\* descriptors after the loops and the end markers, and the final
\* currentDescOffset
fill_rings(rows, t, desccount) ==
    LET raw == [d |-> [k \in 0 .. (desccount - 1) |-> RawDesc], over |-> FALSE]
        S   == ring_j_loop([a |-> raw, b |-> raw, prev |-> NoNext, off |-> 0],
                           t, rows, 0)
    IN  [ a |-> end_markers(S.a, desccount), b |-> end_markers(S.b, desccount),
          off |-> S.off ]

----------------------------------------------------------------------------
\* leddisplay_shutdown and leddisplay_init on the module's allocations

\* the statics that init and shutdown assign
Module ==
    [ frames |-> s_frames, a |-> s_dmadesc_a, b |-> s_dmadesc_b,
      sem |-> s_shift_complete_sem, count |-> sem_count, heap |-> heap,
      i2s |-> i2s, ub |-> FALSE ]

\* if (p != NULL) { heap_caps_free(p); p = NULL; }
free_and_clear(M, field) ==
    IF M[field] # "NULL"
    THEN [M EXCEPT ![field] = "NULL", !.heap = @ \ {M[field]}]
    ELSE M

\* vSemaphoreDelete(s_shift_complete_sem), compiled in without static
\* allocation only; the handle is left as it is.  Deleting a handle that is
\* NULL or was deleted before is undefined: ub records that it happened.
vSemaphoreDelete(M) ==
    IF cfg.static_alloc THEN M
    ELSE IF SemLive(M) THEN [M EXCEPT !.heap = @ \ {"sem"}, !.count = 0]
    ELSE [M EXCEPT !.ub = TRUE]

shutdown_leaks_ring_b(M) ==
    LET M1 == [M EXCEPT !.i2s = i2s_parallel_stop(@)]
        M2 == free_and_clear(M1, "frames")
        M3 == free_and_clear(M2, "a")
    IN  vSemaphoreDelete(M3)

\* leddisplay_shutdown
shutdown(M) ==
    LET M1 == [M EXCEPT !.i2s = i2s_parallel_stop(@)]
        M2 == free_and_clear(M1, "frames")
        M3 == free_and_clear(M2, "a")
        M4 == free_and_clear(M3, "b")
    IN  vSemaphoreDelete(M4)

\* p = heap_caps_malloc(...): the block, or NULL when the allocation fails
heap_caps_malloc(M, field, block, ok) ==
    IF ok
    THEN [M EXCEPT ![field] = block, !.heap = @ \cup {block}]
    ELSE [M EXCEPT ![field] = "NULL"]

desccount_one_short(rows, t) == (numDescriptorsPerRow(t) * rows) - 1

\* int desccount = numDescriptorsPerRow * ROWS_PER_FRAME;
desccount(rows, t) == numDescriptorsPerRow(t) * rows

\* the transition bits the encoders' results are kept for: the value at
\* boot, the first one that meets the refresh budget at 20 MHz, the one
\* the drawing calls run with, and the last
TableBits(g) ==
    { t \in TransitionBits :
        \/ t \in {0, DrawTransitionBit, COLOR_DEPTH_BITS - 1}
        \/ /\ RefreshRateTable[g][20000000][t] >= MinFrameRate
           /\ \A u \in 0 .. (t - 1) :
                 RefreshRateTable[g][20000000][u] < MinFrameRate }

\* the buffer leddisplay_pixel_fill_rgb(0, 0, 0) writes at brightness 0,
\* computed once
ClearedTable ==
    [ g \in PanelTypes |-> [ t \in TableBits(g) |->
        pixel_fill_buffer(g, t, 0, << 0, 0, 0 >>) ] ]

\* the clearing of both buffers by leddisplay_init: fill buffer 1, then
\* buffer 0, starting from memory of any content
clear_frame_buffers(g, t, bval) ==
    [f \in 0 .. (NUM_FRAME_BUFFERS - 1) |->
        IF bval = 0 /\ t \in TableBits(g)
        THEN ClearedTable[g][t]
        ELSE pixel_fill_buffer(g, t, bval, << 0, 0, 0 >>)]

\* the cutoff of the 75 percent leddisplay_init sets, on panel g
DefaultCutoff(g) == ((((1000 * g.W) * 75) + 500) \div 1000) \div 100

\* the buffer leddisplay_frame_update writes for the all-zero frame at the
\* brightness of leddisplay_init, computed once
UpdateTable ==
    [ g \in PanelTypes |-> [ t \in TableBits(g) |->
        frame_update_buffer(g, t, DefaultCutoff(g), frame_clear(g)) ] ]

\* the encoding loop of leddisplay_frame_update on the buffers planes
frame_update_encode(g, planes, cur, t, bval, p_frame) ==
    [planes EXCEPT ![cur] =
        IF bval = DefaultCutoff(g) /\ t \in TableBits(g)
           /\ p_frame = frame_clear(g)
        THEN UpdateTable[g][t]
        ELSE frame_update_buffer(g, t, bval, p_frame)]

RingTable ==
    [ rows \in { RowsPerFrame(g) : g \in PanelTypes } |-> [ t \in TransitionBits |->
        fill_rings(rows, t, desccount(rows, t)) ] ]

\* s_current_frame = (s_current_frame + 1) % NUM_FRAME_BUFFERS;
next_frame_stuck(c) == c

next_frame(c) == (c + 1) % NUM_FRAME_BUFFERS

\* the brightness leddisplay_init leaves: 75 percent is set first; once the
\* buffers exist they are cleared at brightness 0 and the brightness that
\* call replaced is set again
init_brightness_left_dark(framesOk) ==
    LET b75 == set_brightness(s_brightness_percent, 75)
    IN  IF framesOk THEN set_brightness(b75.percent, 0) ELSE b75

init_brightness(framesOk) ==
    LET b75  == set_brightness(s_brightness_percent, 75)
        b0   == set_brightness(b75.percent, 0)
        bOld == set_brightness(b0.percent, b0.ret)
    IN  IF framesOk THEN bOld ELSE b75

\* the content of a block is there while the block is
planes_of(frames, planes) == IF frames = "NULL" THEN NoPlanes ELSE planes

rings_of(a, b, rings) == IF a = "NULL" \/ b = "NULL" THEN NoRings ELSE rings

\* leddisplay_init.  in: which allocations succeed, whether the engine setup
\* succeeds, the ring the engine starts on, the two heap_caps reports.
\* The result: the statics, the planner's locals and res.
init(in) ==
    LET M0   == heap_caps_malloc(Module, "frames", "frames", in.framesOk)
        res0 == IF in.framesOk THEN "ESP_OK" ELSE "ESP_ERR_NO_MEM"
        \* clear frame buffers: brightness 0, fill both, brightness back
        br   == init_brightness(in.framesOk)
        pls  == IF in.framesOk
                THEN clear_frame_buffers(Geometry, s_lsb_msb_transition_bit,
                                         set_brightness(0, 0).val)
                ELSE bitplanes
        cur  == IF in.framesOk THEN 0 ELSE s_current_frame
        \* the search for the transition bit
        pl   == IF res0 = "ESP_OK"
                THEN planner(in.mem.largest, in.mem.total) ELSE NoPlan
        res1 == IF res0 = "ESP_OK" THEN pl.res ELSE res0
        t    == IF res0 = "ESP_OK" THEN pl.t ELSE s_lsb_msb_transition_bit
        \* the two descriptor rings
        Ma   == IF res1 = "ESP_OK"
                THEN heap_caps_malloc(M0, "a", "desc_a", in.aOk) ELSE M0
        Mb   == IF res1 = "ESP_OK"
                THEN heap_caps_malloc(Ma, "b", "desc_b", in.bOk) ELSE Ma
        res2 == IF res1 = "ESP_OK" /\ ~(in.aOk /\ in.bOk)
                THEN "ESP_ERR_NO_MEM" ELSE res1
        \* fill DMA linked lists for both frames
        rgs  == IF res2 = "ESP_OK" THEN RingTable[ROWS_PER_FRAME][t] ELSE lldesc
        \* flush complete semaphore
        Ms   == IF res2 = "ESP_OK"
                THEN [xSemaphoreCreateBinary(Mb) EXCEPT
                         !.i2s = i2s_parallel_set_shiftcomplete_cb(@)]
                ELSE Mb
        \* initialise parallel I2S
        Mi   == IF res2 = "ESP_OK" /\ in.setupOk
                THEN [Ms EXCEPT !.i2s = i2s_parallel_setup(@, in.startRing)]
                ELSE Ms
        res3 == IF res2 = "ESP_OK" /\ ~in.setupOk THEN "ESP_FAIL" ELSE res2
        \* clean up on error
        Mz   == IF res3 = "ESP_OK" THEN Mi ELSE shutdown(Mi)
    IN  [ M |-> Mz, bright |-> br, cur |-> cur, t |-> t,
          plan |-> pl, res |-> res3,
          planes |-> planes_of(Mz.frames, pls),
          rings |-> rings_of(Mz.a, Mz.b, rgs) ]

\* the statics after a call are those of M
Assign(M) ==
    /\ s_frames' = M.frames
    /\ s_dmadesc_a' = M.a
    /\ s_dmadesc_b' = M.b
    /\ s_shift_complete_sem' = M.sem
    /\ sem_count' = M.count
    /\ heap' = M.heap
    /\ i2s' = M.i2s

----------------------------------------------------------------------------
\* The brightness calls on their own

\* one panel type of each width: the brightness code reads the width only
BrightConfigs ==
    { [W |-> g.W, H |-> g.H, scan |-> g.scan, clk |-> 20000000,
       min_rate |-> MinFrameRate,
       preserve |-> 0, static_alloc |-> FALSE] :
      g \in { x \in Geometries : x.H = 32 } }

BrightArgs == (0 - BrightOver) .. (100 + BrightOver)

InitBright ==
    /\ cfg \in BrightConfigs
    /\ mem = [largest |-> 0, total |-> 0]
    /\ staging = NoFrame
    /\ walk = NoWalk
    /\ Boot

protoVars == << cfg, s_frames, s_current_frame, s_lsb_msb_transition_bit,
                s_dmadesc_a, s_dmadesc_b, s_shift_complete_sem, sem_count, heap,
                i2s, pc, life, mem, planned, eof_seen, acquired, drawVars >>

\* a call of leddisplay_set_brightness(brightness)
leddisplay_set_brightness(brightness) ==
    LET r == set_brightness(s_brightness_percent, brightness)
    IN  /\ s_brightness_val' = r.val
        /\ s_brightness_percent' = r.percent
        /\ last' = Call("set_brightness", brightness, r.ret)
        /\ calls' = [before |-> [op |-> last.op, arg |-> last.arg],
                     restored |-> last.op = "set_brightness" /\ brightness = last.ret]

\* a call of leddisplay_get_brightness()
leddisplay_get_brightness ==
    /\ last' = Call("get_brightness", 0, get_brightness)
    /\ calls' = [before |-> [op |-> last.op, arg |-> last.arg], restored |-> FALSE]
    /\ UNCHANGED << s_brightness_val, s_brightness_percent >>

BrightSet ==
    /\ \E brightness \in BrightArgs : leddisplay_set_brightness(brightness)
    /\ UNCHANGED protoVars

BrightGet ==
    /\ leddisplay_get_brightness
    /\ UNCHANGED protoVars

NextBright == BrightSet \/ BrightGet

SpecBright == InitBright /\ [][NextBright]_vars

----------------------------------------------------------------------------
\* The producer task, the engine and the module life cycle

SpecConfigs ==
    { [W |-> g.W, H |-> g.H, scan |-> g.scan, clk |-> 20000000,
       min_rate |-> MinFrameRate,
       preserve |-> PreserveRam, static_alloc |-> sa] :
      g \in Geometries, sa \in BOOLEAN }

\* free DMA memory: none, enough for the coarsest plan only, enough for any
SpecMemInputs ==
    { [largest |-> m, total |-> m + cfg.preserve] :
        m \in { 0, ramRequired(COLOR_DEPTH_BITS - 1) + 1, ramRequired(0) + 1 } }

\* the inputs of a call of leddisplay_init: which allocations succeed, the
\* two heap_caps reports, whether the engine setup succeeds and the ring the
\* engine starts on.  An input the call does not get to consult is left at
\* its first value.
InitInputs ==
    { in \in [ framesOk : BOOLEAN, aOk : BOOLEAN, bOk : BOOLEAN,
               setupOk : BOOLEAN, startRing : {0, 1}, mem : SpecMemInputs ] :
        LET planOk == in.framesOk
                      /\ planner(in.mem.largest, in.mem.total).res = "ESP_OK"
        IN  /\ ~in.framesOk => in.mem.largest = 0
            /\ ~planOk => (~in.aOk /\ ~in.bOk)
            /\ ~(planOk /\ in.aOk /\ in.bOk) => ~in.setupOk
            /\ ~in.setupOk => in.startRing = 0 }

\* the application's frame is a static object, all zero at the start
Init ==
    /\ cfg \in SpecConfigs
    /\ mem = [largest |-> 0, total |-> 0]
    /\ staging = frame_clear(Geometry)
    /\ walk = NoWalk
    /\ Boot

\* what an action that is not a brightness call leaves alone
brightVars == << s_brightness_val, s_brightness_percent, calls >>

\* a call of leddisplay_init() while the module is not initialised.  A
\* shutdown on the error path that deletes a semaphore that does not exist
\* either goes unnoticed or aborts the program.
InitCall(inputs) ==
    /\ pc = "idle"
    /\ life # "up"
    /\ \E in \in inputs, outcome \in {"continue", "abort"} :
          \E r \in { init(in) } :
              /\ (outcome = "abort") => r.M.ub
              /\ Assign(r.M)
              /\ s_brightness_val' = r.bright.val
              /\ s_brightness_percent' = r.bright.percent
              /\ s_current_frame' = r.cur
              /\ s_lsb_msb_transition_bit' = r.t
              /\ planned' = r.plan
              /\ bitplanes' = r.planes
              /\ lldesc' = r.rings
              /\ painted' = IF in.framesOk THEN Unpainted ELSE painted
              /\ mem' = in.mem
              /\ last' = [Call("init", 0, 0) EXCEPT !.in = in, !.res = r.res]
              /\ life' = IF r.res = "ESP_OK" THEN "up" ELSE "failed"
              /\ pc' = IF outcome = "abort" THEN "aborted" ELSE "idle"
    /\ eof_seen' = FALSE
    /\ acquired' = FALSE
    /\ UNCHANGED << cfg, calls, staging, ncalls, draw, walk >>

LeddisplayInit == InitCall(InitInputs)

\* a call of leddisplay_shutdown() while no call is pending
LeddisplayShutdown ==
    /\ pc = "idle"
    /\ \E outcome \in {"continue", "abort"} :
          \E M \in { shutdown(Module) } :
              /\ (outcome = "abort") => M.ub
              /\ Assign(M)
              /\ bitplanes' = planes_of(M.frames, bitplanes)
              /\ lldesc' = rings_of(M.a, M.b, lldesc)
              /\ pc' = IF outcome = "abort" THEN "aborted" ELSE "idle"
    /\ life' = IF life = "up" THEN "down" ELSE life
    /\ last' = Call("shutdown", 0, 0)
    /\ UNCHANGED << cfg, s_current_frame, s_lsb_msb_transition_bit, brightVars,
                    mem, planned, eof_seen, acquired, staging, ncalls, draw,
                    painted, walk >>

\* leddisplay_pixel_update(block) up to its xSemaphoreTake: the flip request
\* and the toggle of the drawing index
LeddisplayPixelUpdate ==
    /\ pc = "idle"
    /\ life = "up"
    /\ \E block \in {0, 1} :
          /\ i2s' = i2s_parallel_flip_to_buffer(i2s, s_current_frame)
          /\ s_current_frame' = next_frame(s_current_frame)
          /\ pc' = IF block # 0 THEN "pixel_update_take" ELSE "idle"
          /\ last' = IF block # 0 THEN last
                     ELSE Call("pixel_update", block, 0)
    /\ UNCHANGED << cfg, s_frames, s_lsb_msb_transition_bit, s_dmadesc_a,
                    s_dmadesc_b, brightVars, s_shift_complete_sem, sem_count,
                    heap, life, mem, planned, eof_seen, acquired, drawVars >>

\* xSemaphoreTake(s_shift_complete_sem, portMAX_DELAY) of a blocking
\* leddisplay_pixel_update, and its return
PixelUpdateTake ==
    /\ pc = "pixel_update_take"
    /\ sem_count > 0
    /\ sem_count' = sem_count - 1
    /\ acquired' = TRUE
    /\ pc' = "idle"
    /\ last' = Call("pixel_update", 1, 0)
    /\ UNCHANGED << cfg, s_frames, s_current_frame, s_lsb_msb_transition_bit,
                    s_dmadesc_a, s_dmadesc_b, brightVars, s_shift_complete_sem,
                    heap, i2s, life, mem, planned, eof_seen, drawVars >>

\* a call of leddisplay_frame_update(p_frame): the producer arrives at the
\* xSemaphoreTake
LeddisplayFrameUpdate ==
    /\ pc = "idle"
    /\ life = "up"
    /\ pc' = "frame_update_take"
    /\ UNCHANGED << cfg, s_frames, s_current_frame, s_lsb_msb_transition_bit,
                    s_dmadesc_a, s_dmadesc_b, brightVars, s_shift_complete_sem,
                    sem_count, heap, i2s, life, last, mem, planned, eof_seen,
                    acquired, drawVars >>

\* xSemaphoreTake(s_shift_complete_sem, portMAX_DELAY) of leddisplay_frame_update
FrameUpdateTake ==
    /\ pc = "frame_update_take"
    /\ sem_count > 0
    /\ sem_count' = sem_count - 1
    /\ acquired' = TRUE
    /\ pc' = "frame_update_encode"
    /\ UNCHANGED << cfg, s_frames, s_current_frame, s_lsb_msb_transition_bit,
                    s_dmadesc_a, s_dmadesc_b, brightVars, s_shift_complete_sem,
                    heap, i2s, life, last, mem, planned, eof_seen, drawVars >>

\* the rest of leddisplay_frame_update: the frame is encoded into buffer
\* s_current_frame, then leddisplay_pixel_update(0) asks for the flip
FrameUpdateEncode ==
    /\ pc = "frame_update_encode"
    /\ bitplanes' = frame_update_encode(Geometry, bitplanes, s_current_frame,
                                        s_lsb_msb_transition_bit,
                                        s_brightness_val, staging)
    /\ painted' = paint_frame(Geometry, painted, s_current_frame, staging)
    /\ i2s' = i2s_parallel_flip_to_buffer(i2s, s_current_frame)
    /\ s_current_frame' = next_frame(s_current_frame)
    /\ pc' = "idle"
    /\ last' = Call("frame_update", 0, 0)
    /\ UNCHANGED << cfg, s_frames, s_lsb_msb_transition_bit, s_dmadesc_a,
                    s_dmadesc_b, brightVars, s_shift_complete_sem, sem_count,
                    heap, life, mem, planned, eof_seen, acquired, lldesc,
                    staging, ncalls, draw, walk >>

\* the engine reaches the end of its ring: it goes on with the ring last
\* asked for and the completion interrupt runs the callback
EngineEndOfList ==
    /\ pc # "aborted"
    /\ i2s.running
    /\ i2s' = [i2s EXCEPT !.ring = i2s.next]
    /\ sem_count' = IF i2s.cb THEN s_shift_complete_sem_cb(sem_count)
                    ELSE sem_count
    /\ eof_seen' = TRUE
    /\ UNCHANGED << cfg, s_frames, s_current_frame, s_lsb_msb_transition_bit,
                    s_dmadesc_a, s_dmadesc_b, brightVars, s_shift_complete_sem,
                    heap, pc, life, last, mem, planned, acquired, drawVars >>

Next ==
    \/ LeddisplayInit
    \/ LeddisplayShutdown
    \/ LeddisplayPixelUpdate
    \/ PixelUpdateTake
    \/ LeddisplayFrameUpdate
    \/ FrameUpdateTake
    \/ FrameUpdateEncode
    \/ EngineEndOfList

Spec == Init /\ [][Next]_vars

\* the producer task is scheduled, and a running engine keeps reaching the
\* end of its ring
Producer == PixelUpdateTake \/ FrameUpdateTake \/ FrameUpdateEncode

SpecLive == Spec /\ WF_vars(EngineEndOfList) /\ WF_vars(Producer)

----------------------------------------------------------------------------
\* The drawing calls of the pixel API on an initialised module

White == << 255, 255, 255 >>

Red == << 255, 0, 0 >>

Mixed == << 1, 128, 64 >>

DrawConfigs ==
    { [W |-> g.W, H |-> g.H, scan |-> g.scan, clk |-> 20000000,
       min_rate |-> MinFrameRate,
       preserve |-> PreserveRam, static_alloc |-> FALSE] : g \in Geometries }

\* a leddisplay_init in which every allocation and the engine setup succeed
DrawInitInputs ==
    { [ framesOk |-> TRUE, aOk |-> TRUE, bOk |-> TRUE, setupOk |-> TRUE,
        startRing |-> 0,
        mem |-> [largest |-> ramRequired(DrawTransitionBit) + 1,
                 total |-> ramRequired(DrawTransitionBit) + 1 + cfg.preserve] ] }

\* the brightness arguments of the drawing specifications and the cutoffs
\* they and the 75 percent of leddisplay_init give on a panel
DrawPercents == {0, 100}

DrawCutoffs(g) == {0, DefaultCutoff(g), g.W}

\* the buffer leddisplay_pixel_fill_rgb(Red) writes, for every panel type and
\* cutoff of the drawing specifications, computed once
FillTable ==
    [ g \in Geometries |-> [ t \in {DrawTransitionBit} |->
        [ bval \in DrawCutoffs(g) |-> pixel_fill_buffer(g, t, bval, Red) ] ] ]

\* the arguments of the leddisplay_pixel_xy_rgb calls: the pixel
\* (DrawX, DrawY) of the top half, the pixel of the bottom half that shares
\* its words, and the pixel whose word is the other half of the 32-bit pair
PixelInputs ==
    { [x |-> DrawX, y |-> DrawY, rgb |-> White],
      [x |-> DrawX, y |-> DrawY, rgb |-> Mixed],
      [x |-> DrawX, y |-> DrawY + ROWS_PER_FRAME, rgb |-> Mixed],
      [x |-> DrawX, y |-> DrawY + ROWS_PER_FRAME, rgb |-> Red],
      [x |-> DrawX - 1, y |-> DrawY, rgb |-> Red] }

InitDraw ==
    /\ cfg \in DrawConfigs
    /\ mem = [largest |-> 0, total |-> 0]
    /\ staging = NoFrame
    /\ walk = NoWalk
    /\ Boot

DrawInit == InitCall(DrawInitInputs)

\* what a drawing call leaves alone
moduleVars == << cfg, s_frames, s_lsb_msb_transition_bit, s_dmadesc_a,
                 s_dmadesc_b, s_shift_complete_sem, sem_count, heap, life, mem,
                 planned, eof_seen, acquired, pc, walk >>

\* what a call of leddisplay_pixel_xy_rgb can come to: inside the allocation
\* of s_frames it returns; past its end the stores go unnoticed, or they
\* land in the descriptor arrays allocated after s_frames, or the program
\* aborts
xy_outcomes(g, cur, x_coord, y_coord) ==
    IF xy_outside(g, cur, x_coord, y_coord)
    THEN { [kind |-> "continue", gap |-> 0], [kind |-> "abort", gap |-> 0] }
         \cup { [kind |-> "overwrite", gap |-> gap] : gap \in BlockGaps }
    ELSE { [kind |-> "continue", gap |-> 0] }

\* a call of leddisplay_pixel_xy_rgb(x, y, r, g, b)
PixelXYCall(inputs, budget) ==
    /\ pc = "idle"
    /\ life = "up"
    /\ ncalls < budget
    /\ \E c \in inputs :
          /\ bitplanes' = pixel_xy_rgb(Geometry, bitplanes, s_current_frame,
                                       s_lsb_msb_transition_bit,
                                       s_brightness_val, c.x, c.y, c.rgb)
          /\ painted' = IF c.x \in 0 .. (LEDDISPLAY_WIDTH - 1)
                           /\ c.y \in 0 .. (LEDDISPLAY_HEIGHT - 1)
                        THEN paint_xy(Geometry, painted, s_current_frame,
                                      c.x, c.y, c.rgb)
                        ELSE painted
          /\ draw' = [op |-> "pixel_xy", x |-> c.x, y |-> c.y, rgb |-> c.rgb]
          /\ \E outcome \in xy_outcomes(Geometry, s_current_frame, c.x, c.y) :
                /\ pc' = IF outcome.kind = "abort" THEN "aborted" ELSE pc
                /\ lldesc' = IF outcome.kind = "overwrite"
                             THEN xy_overwrite(Geometry, lldesc,
                                               s_current_frame, c.x, c.y,
                                               outcome.gap)
                             ELSE lldesc
    /\ ncalls' = ncalls + 1
    /\ last' = Call("pixel_xy", 0, 0)
    /\ UNCHANGED << cfg, s_frames, s_lsb_msb_transition_bit, s_dmadesc_a,
                    s_dmadesc_b, s_shift_complete_sem, sem_count, heap, life,
                    mem, planned, eof_seen, acquired, walk, s_current_frame,
                    brightVars, i2s, staging >>

\* a call of leddisplay_pixel_fill_rgb(255, 0, 0)
PixelFillCall(budget) ==
    /\ pc = "idle"
    /\ life = "up"
    /\ ncalls < budget
    /\ bitplanes' =
          [bitplanes EXCEPT ![s_current_frame] =
              FillTable[Geometry][s_lsb_msb_transition_bit][s_brightness_val]]
    /\ painted' = paint_fill(painted, s_current_frame, Red)
    /\ draw' = [NoDraw EXCEPT !.op = "pixel_fill", !.rgb = Red]
    /\ ncalls' = ncalls + 1
    /\ last' = Call("pixel_fill", 0, 0)
    /\ UNCHANGED << moduleVars, s_current_frame, brightVars, i2s, lldesc,
                    staging >>

\* a call of leddisplay_set_brightness between drawing calls
DrawSetBrightness(percents, budget) ==
    /\ pc = "idle"
    /\ ncalls < budget
    /\ \E brightness \in percents : leddisplay_set_brightness(brightness)
    /\ ncalls' = ncalls + 1
    /\ UNCHANGED << moduleVars, s_current_frame, i2s, bitplanes, lldesc,
                    staging, draw, painted >>

\* a call of leddisplay_pixel_update(0)
PixelPublish ==
    /\ ncalls < MaxDraw
    /\ pc = "idle"
    /\ life = "up"
    /\ i2s' = i2s_parallel_flip_to_buffer(i2s, s_current_frame)
    /\ s_current_frame' = next_frame(s_current_frame)
    /\ last' = Call("pixel_update", 0, 0)
    /\ ncalls' = ncalls + 1
    /\ UNCHANGED << moduleVars, brightVars, bitplanes, lldesc, staging, draw,
                    painted >>

\* a call of leddisplay_shutdown after the drawing calls
PixelShutdown ==
    /\ ncalls < MaxDraw
    /\ life = "up"
    /\ LeddisplayShutdown

PixelXY == PixelXYCall(PixelInputs, MaxDraw)

PixelFill == PixelFillCall(MaxDraw)

PixelSetBrightness == DrawSetBrightness(DrawPercents, MaxDraw)

NextPixel ==
    \/ DrawInit
    \/ PixelXY
    \/ PixelFill
    \/ PixelSetBrightness
    \/ PixelPublish
    \/ PixelShutdown

SpecPixel == InitDraw /\ [][NextPixel]_vars

----------------------------------------------------------------------------
\* The three encoders and the staging frame on an initialised module, with
\* the engine running

\* leddisplay_pixel_xy_rgb at the first and the last pixel and outside the
\* panel
EdgeInputs ==
    { [x |-> 0, y |-> 0, rgb |-> White],
      [x |-> LEDDISPLAY_WIDTH - 1, y |-> LEDDISPLAY_HEIGHT - 1, rgb |-> Mixed],
      [x |-> LEDDISPLAY_WIDTH, y |-> DrawY, rgb |-> White],
      [x |-> DrawX, y |-> LEDDISPLAY_HEIGHT, rgb |-> White] }

\* leddisplay_frame_xy_rgb at a pixel of the bottom half and outside the panel
FrameInputs ==
    { [x |-> DrawX, y |-> DrawY + ROWS_PER_FRAME, rgb |-> Mixed],
      [x |-> LEDDISPLAY_WIDTH, y |-> DrawY, rgb |-> White],
      [x |-> DrawX, y |-> LEDDISPLAY_HEIGHT, rgb |-> White] }

\* the application's frame is a static object, all zero at the start
InitFrame ==
    /\ cfg \in DrawConfigs
    /\ mem = [largest |-> 0, total |-> 0]
    /\ staging = frame_clear(Geometry)
    /\ walk = NoWalk
    /\ Boot

\* a call of leddisplay_frame_xy_rgb(&frame, x, y, r, g, b)
FrameXY ==
    /\ pc = "idle"
    /\ ncalls < MaxFrame
    /\ \E c \in FrameInputs :
          /\ staging' = frame_xy_rgb(Geometry, staging, c.x, c.y, c.rgb)
          /\ draw' = [op |-> "frame_xy", x |-> c.x, y |-> c.y, rgb |-> c.rgb]
    /\ ncalls' = ncalls + 1
    /\ last' = Call("frame_xy", 0, 0)
    /\ UNCHANGED << moduleVars, s_current_frame, brightVars, i2s, bitplanes,
                    lldesc, painted >>

\* a call of leddisplay_frame_fill_rgb(&frame, 255, 0, 0)
FrameFill ==
    /\ pc = "idle"
    /\ ncalls < MaxFrame
    /\ staging' = frame_fill_rgb(Geometry, Red)
    /\ draw' = [NoDraw EXCEPT !.op = "frame_fill", !.rgb = Red]
    /\ ncalls' = ncalls + 1
    /\ last' = Call("frame_fill", 0, 0)
    /\ UNCHANGED << moduleVars, s_current_frame, brightVars, i2s, bitplanes,
                    lldesc, painted >>

\* a call of leddisplay_frame_clear(&frame)
FrameClear ==
    /\ pc = "idle"
    /\ ncalls < MaxFrame
    /\ staging' = frame_clear(Geometry)
    /\ draw' = [NoDraw EXCEPT !.op = "frame_clear"]
    /\ ncalls' = ncalls + 1
    /\ last' = Call("frame_clear", 0, 0)
    /\ UNCHANGED << moduleVars, s_current_frame, brightVars, i2s, bitplanes,
                    lldesc, painted >>

\* a call of leddisplay_frame_update(&frame): the producer arrives at the
\* xSemaphoreTake
FrameUpdateCall ==
    /\ ncalls < MaxFrame
    /\ ncalls' = ncalls + 1
    /\ pc = "idle"
    /\ life = "up"
    /\ pc' = "frame_update_take"
    /\ UNCHANGED << cfg, s_frames, s_current_frame, s_lsb_msb_transition_bit,
                    s_dmadesc_a, s_dmadesc_b, brightVars, s_shift_complete_sem,
                    sem_count, heap, i2s, life, last, mem, planned, eof_seen,
                    acquired, bitplanes, lldesc, staging, draw, painted, walk >>

EdgeXY == PixelXYCall(EdgeInputs, MaxFrame)

FrameSetBrightness == DrawSetBrightness({100}, MaxFrame)

EdgeFill == PixelFillCall(MaxFrame)

NextFrame ==
    \/ DrawInit
    \/ EdgeXY
    \/ EdgeFill
    \/ FrameSetBrightness
    \/ FrameXY
    \/ FrameFill
    \/ FrameClear
    \/ FrameUpdateCall
    \/ FrameUpdateTake
    \/ FrameUpdateEncode
    \/ EngineEndOfList

SpecFrame == InitFrame /\ [][NextFrame]_vars

----------------------------------------------------------------------------
\* The descriptor rings leddisplay_init builds for every transition bit, and
\* a traversal of each ring along the next pointers from descriptor 0

\* free DMA memory just above what the plan with transition bit t requires
RingInitInputs ==
    { [ framesOk |-> TRUE, aOk |-> TRUE, bOk |-> TRUE, setupOk |-> TRUE,
        startRing |-> 0,
        mem |-> [largest |-> ramRequired(t) + 1,
                 total |-> ramRequired(t) + 1 + cfg.preserve] ] :
      t \in TransitionBits }

\* a count for every bitplane of every row, all zero
NoCounts ==
    [j \in 0 .. (ROWS_PER_FRAME - 1) |->
        [i \in 0 .. (COLOR_DEPTH_BITS - 1) |-> 0]]

\* the start of a traversal of ring r: nothing passed, nothing emitted; the
\* panel holds what the traversal before has latched last, the top bitplane
\* of the last row
FreshWalk(r) ==
    [ ring |-> r, at |-> 0, steps |-> 0,
      emitted |-> NoCounts, starts |-> NoCounts,
      latched |-> [row |-> ROWS_PER_FRAME - 1, plane |-> COLOR_DEPTH_BITS - 1],
      own |-> NoCounts, shown |-> NoCounts ]

\* the pixel clocks of one bitplane of a row during which the panel's output
\* is enabled: the words with OE clear
enabled_clocks(pixel) ==
    Cardinality({ ix \in DOMAIN pixel : ~AndBit(pixel[ix], BIT_OE) })

\* the enabled pixel clocks of the bitplanes descriptor d covers
clocks_of(d) ==
    [i \in 0 .. (COLOR_DEPTH_BITS - 1) |->
        IF d.plane <= i /\ i < d.plane + d.size
        THEN enabled_clocks(bitplanes[d.buf][d.row][i]) ELSE 0]

\* the enabled clocks of the words of each bitplane, added up per bitplane
own_clocks(own, d, en) ==
    [own EXCEPT ![d.row] = [i \in 0 .. (COLOR_DEPTH_BITS - 1) |-> @[i] + en[i]]]

\* the enabled clocks during which each bitplane is on the panel: the panel
\* shows the bitplane latched last while the words of the next are shifted in
shown_clocks(shown, latched, d, en) ==
    LET first == [shown EXCEPT ![latched.row][latched.plane] = @ + en[d.plane]]
    IN  [first EXCEPT ![d.row] =
            [i \in 0 .. (COLOR_DEPTH_BITS - 1) |->
                IF d.plane <= i /\ i + 1 < d.plane + d.size
                THEN @[i] + en[i + 1] ELSE @[i]]]

\* every panel type a build can select
RingConfigs ==
    { [W |-> g.W, H |-> g.H, scan |-> g.scan, clk |-> 20000000,
       min_rate |-> MinFrameRate,
       preserve |-> PreserveRam, static_alloc |-> FALSE] : g \in PanelTypes }

InitRing ==
    /\ cfg \in RingConfigs
    /\ mem = [largest |-> 0, total |-> 0]
    /\ staging = NoFrame
    /\ walk = FreshWalk("a")
    /\ Boot

RingInit == InitCall(RingInitInputs)

\* the traversal is back at descriptor 0
WalkClosed == walk.steps > 0 /\ walk.at = 0

\* the traversal passes the descriptor it is at: the bitplanes the
\* descriptor covers are emitted, its next pointer is followed
TraverseStep ==
    /\ life = "up"
    /\ ~WalkClosed
    /\ walk.at >= 0
    /\ walk.steps < desccount(ROWS_PER_FRAME, s_lsb_msb_transition_bit)
    /\ \E d \in { lldesc[walk.ring].d[walk.at] } :
          \E en \in { clocks_of(d) } :
              walk' = [walk EXCEPT
                         !.at = d.next,
                         !.steps = @ + 1,
                         !.emitted[d.row] =
                             [i \in 0 .. (COLOR_DEPTH_BITS - 1) |->
                                 IF d.plane <= i /\ i < d.plane + d.size
                                 THEN @[i] + 1 ELSE @[i]],
                         !.starts[d.row][d.plane] = @ + 1,
                         !.latched = [row |-> d.row,
                                      plane |-> (d.plane + d.size) - 1],
                         !.own = own_clocks(@, d, en),
                         !.shown = shown_clocks(@, walk.latched, d, en)]
    /\ UNCHANGED << cfg, s_frames, s_current_frame, s_lsb_msb_transition_bit,
                    s_dmadesc_a, s_dmadesc_b, brightVars, s_shift_complete_sem,
                    sem_count, heap, i2s, pc, life, last, mem, planned,
                    eof_seen, acquired, bitplanes, lldesc, staging, ncalls,
                    draw, painted >>

\* the traversal of ring A is complete: ring B is traversed
TraverseOther ==
    /\ life = "up"
    /\ WalkClosed
    /\ walk.ring = "a"
    /\ walk' = FreshWalk("b")
    /\ UNCHANGED << cfg, s_frames, s_current_frame, s_lsb_msb_transition_bit,
                    s_dmadesc_a, s_dmadesc_b, brightVars, s_shift_complete_sem,
                    sem_count, heap, i2s, pc, life, last, mem, planned,
                    eof_seen, acquired, bitplanes, lldesc, staging, ncalls,
                    draw, painted >>

NextRing == RingInit \/ TraverseStep \/ TraverseOther

SpecRing == InitRing /\ [][NextRing]_vars

----------------------------------------------------------------------------
\* A traversal of ring A after the drawing buffer it references has been
\* filled with white, for every transition bit and several cutoffs

\* one panel type of each width
BcmConfigs == { c \in DrawConfigs : c.W = c.H * 2 }

BcmPercents == {10, 45, 100}

InitBcm ==
    /\ cfg \in BcmConfigs
    /\ mem = [largest |-> 0, total |-> 0]
    /\ staging = NoFrame
    /\ walk = FreshWalk("a")
    /\ Boot

BcmInit == InitCall(RingInitInputs)

\* a call of leddisplay_set_brightness right after leddisplay_init
BcmSetBrightness ==
    /\ pc = "idle"
    /\ life = "up"
    /\ last.op = "init"
    /\ \E brightness \in BcmPercents : leddisplay_set_brightness(brightness)
    /\ UNCHANGED << moduleVars, s_current_frame, i2s, bitplanes, lldesc,
                    staging, ncalls, draw, painted >>

\* a call of leddisplay_pixel_fill_rgb(255, 255, 255) at the brightness in force
BcmFill ==
    /\ pc = "idle"
    /\ life = "up"
    /\ last.op \in {"init", "set_brightness"}
    /\ bitplanes' = pixel_fill_rgb(Geometry, bitplanes, s_current_frame,
                                   s_lsb_msb_transition_bit, s_brightness_val,
                                   White)
    /\ painted' = paint_fill(painted, s_current_frame, White)
    /\ draw' = [NoDraw EXCEPT !.op = "pixel_fill", !.rgb = White]
    /\ last' = Call("pixel_fill", 0, 0)
    /\ UNCHANGED << moduleVars, s_current_frame, brightVars, i2s, lldesc,
                    staging, ncalls >>

\* the engine passes a descriptor of the ring of the filled buffer
BcmTraverse ==
    /\ last.op = "pixel_fill"
    /\ TraverseStep

NextBcm == BcmInit \/ BcmSetBrightness \/ BcmFill \/ BcmTraverse

SpecBcm == InitBcm /\ [][NextBcm]_vars

----------------------------------------------------------------------------
\* Both buffers filled with white, each at a brightness of its own, for every
\* transition bit

MonoPercents == {0, 3, 50, 100}

\* a call of leddisplay_set_brightness before a fill
MonoSetBrightness ==
    /\ pc = "idle"
    /\ life = "up"
    /\ last.op \in {"init", "pixel_update"}
    /\ \E brightness \in MonoPercents : leddisplay_set_brightness(brightness)
    /\ UNCHANGED << moduleVars, s_current_frame, i2s, bitplanes, lldesc,
                    staging, ncalls, draw, painted >>

\* a call of leddisplay_pixel_fill_rgb(255, 255, 255) on a buffer that holds
\* what leddisplay_init has left
MonoFill ==
    /\ painted[s_current_frame].top = Black
    /\ BcmFill

\* a call of leddisplay_pixel_update(0) after the first fill
MonoPublish ==
    /\ pc = "idle"
    /\ life = "up"
    /\ last.op = "pixel_fill"
    /\ s_current_frame = 0
    /\ i2s' = i2s_parallel_flip_to_buffer(i2s, s_current_frame)
    /\ s_current_frame' = next_frame(s_current_frame)
    /\ last' = Call("pixel_update", 0, 0)
    /\ UNCHANGED << moduleVars, brightVars, bitplanes, lldesc, staging, ncalls,
                    draw, painted >>

NextMono == BcmInit \/ MonoSetBrightness \/ MonoFill \/ MonoPublish

SpecMono == InitBcm /\ [][NextMono]_vars

----------------------------------------------------------------------------
\* Every encoder once, in the order frame_update, pixel_fill, pixel_xy, at a
\* brightness set right after leddisplay_init

WordsBits == {0, DrawTransitionBit, COLOR_DEPTH_BITS - 1}

\* free DMA memory just above what the plan with transition bit t requires
WordsInitInputs ==
    { c \in RingInitInputs :
        \E t \in WordsBits : c.mem.largest = ramRequired(t) + 1 }

\* the place of a call in the order of the calls
OpRank(op) ==
    CASE op = "none" -> 0
      [] op = "init" -> 1
      [] op = "set_brightness" -> 2
      [] op = "frame_fill" -> 3
      [] op = "frame_update" -> 4
      [] op = "pixel_fill" -> 5
      [] OTHER -> 6

\* the panel types twice as wide as high with two rows in parallel, and the
\* smaller of them with four
WordsConfigs ==
    { c \in RingConfigs :
        c.W = c.H * 2 /\ (c.scan * 2 = c.H \/ c.W = 32) }

\* leddisplay_pixel_xy_rgb at the first and the last pixel, outside the
\* panel, and at a row that lies in the panel with four rows in parallel only
WordsInputs ==
    EdgeInputs \cup
        { [x |-> DrawX, y |-> (2 * ROWS_PER_FRAME) + DrawY, rgb |-> Mixed] }

InitWords ==
    /\ cfg \in WordsConfigs
    /\ mem = [largest |-> 0, total |-> 0]
    /\ staging = frame_clear(Geometry)
    /\ walk = NoWalk
    /\ Boot

WordsInit == InitCall(WordsInitInputs)

\* a call of leddisplay_set_brightness right after leddisplay_init
WordsSetBrightness ==
    /\ pc = "idle"
    /\ life = "up"
    /\ last.op = "init"
    /\ \E brightness \in DrawPercents : leddisplay_set_brightness(brightness)
    /\ UNCHANGED << moduleVars, s_current_frame, i2s, bitplanes, lldesc,
                    staging, ncalls, draw, painted >>

WordsFrameFill ==
    /\ life = "up"
    /\ OpRank(last.op) < OpRank("frame_fill")
    /\ FrameFill

WordsUpdateCall ==
    /\ OpRank(last.op) < OpRank("frame_update")
    /\ FrameUpdateCall

\* a call of leddisplay_pixel_fill_rgb(255, 255, 255)
WordsFill ==
    /\ pc = "idle"
    /\ life = "up"
    /\ OpRank(last.op) < OpRank("pixel_fill")
    /\ bitplanes' = pixel_fill_rgb(Geometry, bitplanes, s_current_frame,
                                   s_lsb_msb_transition_bit, s_brightness_val,
                                   White)
    /\ painted' = paint_fill(painted, s_current_frame, White)
    /\ draw' = [NoDraw EXCEPT !.op = "pixel_fill", !.rgb = White]
    /\ last' = Call("pixel_fill", 0, 0)
    /\ UNCHANGED << moduleVars, s_current_frame, brightVars, i2s, lldesc,
                    staging, ncalls >>

WordsXY ==
    /\ OpRank(last.op) < OpRank("pixel_xy")
    /\ PixelXYCall(WordsInputs, MaxFrame + 1)

NextWords ==
    \/ WordsInit
    \/ WordsSetBrightness
    \/ WordsFrameFill
    \/ WordsUpdateCall
    \/ FrameUpdateTake
    \/ FrameUpdateEncode
    \/ WordsFill
    \/ WordsXY
    \/ EngineEndOfList

SpecWords == InitWords /\ [][NextWords]_vars

----------------------------------------------------------------------------
\* The reference loop of leddisplay_pixel_fill_rgb on a buffer that holds the
\* clear of leddisplay_init or a white fill made at the default brightness

LoopConfigs == { c \in DrawConfigs : c.W = 32 }

LoopOrders == {"rows", "backwards", "columns"}

InitLoop ==
    /\ cfg \in LoopConfigs
    /\ mem = [largest |-> 0, total |-> 0]
    /\ staging = NoFrame
    /\ walk = NoWalk
    /\ Boot

\* a call of leddisplay_pixel_fill_rgb(255, 255, 255) right after
\* leddisplay_init
LoopPrior ==
    /\ last.op = "init"
    /\ WordsFill

\* a call of leddisplay_set_brightness before the reference loop
LoopSetBrightness ==
    /\ pc = "idle"
    /\ life = "up"
    /\ last.op \in {"init", "pixel_fill"}
    /\ \E brightness \in DrawPercents : leddisplay_set_brightness(brightness)
    /\ UNCHANGED << moduleVars, s_current_frame, i2s, bitplanes, lldesc,
                    staging, ncalls, draw, painted >>

\* the reference loop with the mixed colour, in one of the visiting orders
PixelFillByXY ==
    /\ pc = "idle"
    /\ life = "up"
    /\ last.op \in {"init", "set_brightness", "pixel_fill"}
    /\ \E order \in LoopOrders :
          /\ bitplanes' = pixel_fill_by_xy(Geometry, bitplanes, s_current_frame,
                                           s_lsb_msb_transition_bit,
                                           s_brightness_val, Mixed, order)
          /\ last' = [Call("pixel_fill_by_xy", 0, 0) EXCEPT !.res = order]
    /\ painted' = paint_fill(painted, s_current_frame, Mixed)
    /\ draw' = [NoDraw EXCEPT !.op = "pixel_fill_by_xy", !.rgb = Mixed]
    /\ UNCHANGED << moduleVars, s_current_frame, brightVars, i2s, lldesc,
                    staging, ncalls >>

NextLoop == WordsInit \/ LoopPrior \/ LoopSetBrightness \/ PixelFillByXY

SpecLoop == InitLoop /\ [][NextLoop]_vars

----------------------------------------------------------------------------
\* Claims about the brightness calls (SpecBright)

Min(a, b) == IF a <= b THEN a ELSE b

Max(a, b) == IF a >= b THEN a ELSE b

\* n / d rounded to the nearest integer, n >= 0, d > 0
RoundDiv(n, d) == (2 * n + d) \div (2 * d)

\* C9: leddisplay_set_brightness(p) stores min(100, max(0, p)) and returns the
\* percent stored before the call; leddisplay_get_brightness returns the stored
\* percent; so the second of two sets returns the clamped argument of the first,
\* and setting a value a set returned restores that percent.
C9_SetStoresClampReturnsPrevious ==
    /\ [](last.op = "set_brightness" =>
            s_brightness_percent = Min(100, Max(0, last.arg)))
    /\ [](last.op = "get_brightness" => last.ret = s_brightness_percent)
    /\ []((last.op = "set_brightness" /\ calls.before.op = "set_brightness") =>
            last.ret = Min(100, Max(0, calls.before.arg)))
    /\ [](calls.restored => s_brightness_percent = last.arg)
    /\ [][last'.op = "set_brightness" => last'.ret = s_brightness_percent]_vars

\* a set of a value below 0 right after a set of a value above 100
C9_Witness ==
    /\ last.op = "set_brightness" /\ last.arg < 0 /\ last.ret = 100
    /\ calls.before.op = "set_brightness" /\ calls.before.arg > 100
    /\ s_brightness_percent = 0

\* C10: for every percent in 0..100 and both widths the cutoff stored by
\* leddisplay_set_brightness is W * percent / 100 rounded to the nearest
\* integer, lies in 0..W, and is W exactly when percent is 100.
C10_CutoffIsRounded ==
    (last.op = "set_brightness" /\ last.arg \in 0 .. 100) =>
        /\ s_brightness_val = RoundDiv(LEDDISPLAY_WIDTH * last.arg, 100)
        /\ s_brightness_val \in 0 .. LEDDISPLAY_WIDTH
        /\ (s_brightness_val = LEDDISPLAY_WIDTH <=> last.arg = 100)

----------------------------------------------------------------------------
\* The planner on its own: every panel type and clock, free-memory and
\* minimum-refresh inputs around every threshold of the search

RateInputs(g, clk) ==
    { RefreshRateTable[g][clk][t] + d :
        t \in {0, 3, COLOR_DEPTH_BITS - 1}, d \in 0 .. RateSlack } \cup { 1 }

PlanConfigs ==
    UNION { { [W |-> g.W, H |-> g.H, scan |-> g.scan, clk |-> clk,
               min_rate |-> r, preserve |-> PreserveRam,
               static_alloc |-> FALSE] :
                r \in RateInputs(g, clk) } :
            g \in PanelTypes, clk \in Clocks }

MemInputs ==
    { ramRequired(t) + d : t \in TransitionBits,
                           d \in (0 - MemSlack) .. MemSlack } \cup { 0 }

\* the two heap_caps reports are inputs
InitPlan ==
    /\ cfg \in PlanConfigs
    /\ mem \in { [largest |-> l, total |-> m + cfg.preserve] :
                   l \in MemInputs, m \in MemInputs }
    /\ staging = NoFrame
    /\ walk = NoWalk
    /\ Boot

\* the search of leddisplay_init, from the two heap_caps reports to res
PlanSearch ==
    /\ planned.res = "none"
    /\ planned' = planner(mem.largest, mem.total)
    /\ s_lsb_msb_transition_bit' = planned'.t
    /\ UNCHANGED << cfg, s_frames, s_current_frame, s_dmadesc_a, s_dmadesc_b,
                    s_brightness_val, s_brightness_percent, s_shift_complete_sem,
                    sem_count, heap, i2s, pc, life, last, calls, mem, eof_seen,
                    acquired, drawVars >>

NextPlan == PlanSearch

SpecPlan == InitPlan /\ [][NextPlan]_vars

----------------------------------------------------------------------------
\* Claims about the planner (SpecPlan)

\* min(largest_free_DMA_block, total_free_DMA - reserve)
RamBudget == Min(mem.largest, mem.total - cfg.preserve)

PlanDone == planned.res # "none"

\* C7 as stated: on success t is the smallest t with
\* ram_required(t) <= min(largest, total - reserve) and
\* refresh_hz(t) >= min_refresh_hz; a ram_required equal to the minimum counts.
C7_SmallestWithinBudget ==
    (PlanDone /\ planned.res = "ESP_OK") =>
        /\ planned.t = s_lsb_msb_transition_bit
        /\ ramRequired(planned.t) <= RamBudget
        /\ refreshRate(planned.t) >= cfg.min_rate
        /\ \A u \in 0 .. (planned.t - 1) :
              ~(ramRequired(u) <= RamBudget /\ refreshRate(u) >= cfg.min_rate)

\* C7 amended: on success t is the smallest t with
\* ram_required(t) < min(largest, total - reserve) and
\* refresh_hz(t) >= min_refresh_hz; a ram_required equal to the minimum is
\* not accepted.
C7_SmallestStrictlyWithinBudget ==
    (PlanDone /\ planned.res = "ESP_OK") =>
        /\ planned.t = s_lsb_msb_transition_bit
        /\ ramRequired(planned.t) < RamBudget
        /\ refreshRate(planned.t) >= cfg.min_rate
        /\ \A u \in 0 .. (planned.t - 1) :
              ~(ramRequired(u) < RamBudget /\ refreshRate(u) >= cfg.min_rate)

\* the search succeeded past a t whose ram_required equals the minimum
C7_Witness ==
    /\ planned.res = "ESP_OK"
    /\ planned.t = 3
    /\ ramRequired(2) = RamBudget
    /\ refreshRate(2) >= cfg.min_rate

\* C8 as stated: when the search fails, the error is ESP_ERR_NO_MEM if the RAM
\* budget is unmet at t = D-1 and ESP_FAIL if the refresh budget is unmet there.
C8_ErrorNamesUnmetBudget ==
    (PlanDone /\ planned.res # "ESP_OK") =>
        /\ planned.t = COLOR_DEPTH_BITS - 1
        /\ (~planned.ramOkay => planned.res = "ESP_ERR_NO_MEM")
        /\ (~planned.refreshOkay => planned.res = "ESP_FAIL")

\* C8 amended: when no t meets both budgets the search fails at t = D-1 with
\* ESP_FAIL if the refresh budget is unmet there (whether or not the RAM budget
\* is met), and with ESP_ERR_NO_MEM if only the RAM budget is unmet.
C8_ErrorRefreshFirst ==
    LET D1 == COLOR_DEPTH_BITS - 1
        none == \A u \in TransitionBits :
                   ~(ramRequired(u) < RamBudget /\ refreshRate(u) >= cfg.min_rate)
    IN  PlanDone =>
          /\ none <=> planned.res # "ESP_OK"
          /\ none =>
               /\ planned.t = D1
               /\ planned.res = IF refreshRate(D1) < cfg.min_rate
                                THEN "ESP_FAIL" ELSE "ESP_ERR_NO_MEM"

\* the search failed with both budgets unmet at t = D-1
C8_Witness ==
    /\ planned.res = "ESP_FAIL"
    /\ planned.t = COLOR_DEPTH_BITS - 1
    /\ ~(ramRequired(COLOR_DEPTH_BITS - 1) < RamBudget)
    /\ refreshRate(COLOR_DEPTH_BITS - 1) < cfg.min_rate

----------------------------------------------------------------------------
\* Claims about the publish protocol and the life cycle (Spec, SpecLive)

\* the engine is reading the buffer the producer draws into
DrawingBufferUnderRead == i2s.running /\ i2s.ring = s_current_frame

\* C1: when a call leddisplay_pixel_update(block != 0) returns, in any
\* interleaving with the engine's end-of-list events, the engine is no longer
\* reading the buffer that is the drawing buffer after the toggle.
C1_BlockingPublishReturnsIdleBuffer ==
    (life = "up" /\ pc = "idle" /\ last.op = "pixel_update" /\ last.arg # 0) =>
        ~DrawingBufferUnderRead

\* C2: from the moment a call of leddisplay_frame_update has taken the flip
\* semaphore until it asks for the flip, the buffer it encodes into
\* (s_current_frame) is not the buffer the engine is reading.
C2_FrameUpdateEncodesIdleBuffer ==
    pc = "frame_update_encode" => ~DrawingBufferUnderRead

\* C3 as stated: right after a successful leddisplay_init the flip semaphore
\* is available, so the first take succeeds before any end-of-list event.
C3_AvailableAfterInit ==
    (life = "up" /\ ~eof_seen /\ ~acquired) => sem_count = 1

\* C3 amended: right after a successful leddisplay_init the flip semaphore is
\* empty, and no take of the producer succeeds until the engine has reached an
\* end-of-list since that init.
C3_EmptyAfterInit ==
    (life = "up" /\ ~eof_seen) => (sem_count = 0 /\ ~acquired)

\* leddisplay_frame_update waits at its take and no end-of-list has happened
C3_Witness ==
    life = "up" /\ ~eof_seen /\ pc = "frame_update_take" /\ sem_count = 0

\* the producer is inside leddisplay_frame_update or a blocking
\* leddisplay_pixel_update
InPublish ==
    pc \in {"pixel_update_take", "frame_update_take", "frame_update_encode"}

\* C4: while the module is initialised and the engine keeps reaching
\* end-of-list, every leddisplay_frame_update and every blocking
\* leddisplay_pixel_update eventually returns.
C4_PublishReturns == InPublish ~> (pc = "idle")

\* a blocking leddisplay_pixel_update waits on the empty semaphore
C4_Witness == pc = "pixel_update_take" /\ sem_count = 0 /\ life = "up"

\* C5: when leddisplay_init returns anything other than ESP_OK, no bitplane
\* buffer and no descriptor ring remains allocated, s_frames, s_dmadesc_a and
\* s_dmadesc_b are NULL, and the engine is stopped.
C5_FailedInitUnwinds ==
    (last.op = "init" /\ last.res # "ESP_OK" /\ pc = "idle") =>
        /\ s_frames = "NULL"
        /\ s_dmadesc_a = "NULL"
        /\ s_dmadesc_b = "NULL"
        /\ heap \cap {"frames", "desc_a", "desc_b"} = {}
        /\ ~i2s.running

\* leddisplay_init returned ESP_ERR_NO_MEM after it had allocated the bitplane
\* buffers and ring A
C5_Witness ==
    /\ last.op = "init" /\ last.res = "ESP_ERR_NO_MEM" /\ pc = "idle"
    /\ last.in.framesOk /\ last.in.aOk /\ ~last.in.bOk

\* C6: after leddisplay_shutdown following a successful leddisplay_init, the
\* bitplane buffers, the descriptor rings and the flip semaphore are released
\* and the module's references to them are cleared; and a leddisplay_init under
\* good memory conditions succeeds, in every round.
C6_ShutdownReleasesAndClears ==
    /\ (last.op = "shutdown" /\ life = "down" /\ pc = "idle") =>
          /\ heap = {}
          /\ s_frames = "NULL"
          /\ s_dmadesc_a = "NULL"
          /\ s_dmadesc_b = "NULL"
          /\ s_shift_complete_sem = "NULL"
          /\ ~i2s.running
    /\ (last.op = "init" /\ pc = "idle" /\ last.in.framesOk /\ last.in.aOk
          /\ last.in.bOk /\ last.in.setupOk) => last.res = "ESP_OK"

----------------------------------------------------------------------------
\* Claims about the drawing calls (SpecPixel)

\* x XOR 1
Xor1(x) == x + 1 - (2 * (x % 2))

\* the word of buffer f that is emitted for column x of half-row y on plane i
WordAt(f, y, i, x) == bitplanes[f][y][i][Xor1(x)]

Planes == 0 .. (COLOR_DEPTH_BITS - 1)

\* the last call was a leddisplay_pixel_xy_rgb inside the panel
DrewPixel ==
    /\ last.op = "pixel_xy"
    /\ draw.x < LEDDISPLAY_WIDTH
    /\ draw.y < LEDDISPLAY_HEIGHT

\* the column from which output is disabled on plane i at cutoff bval
CutoffColumn(bval, i) ==
    IF i = 0 \/ i > s_lsb_msb_transition_bit
    THEN bval
    ELSE bval \div (2 ^ ((s_lsb_msb_transition_bit - i) + 1))

\* C11: a call of leddisplay_set_brightness changes no word of either
\* bitplane buffer, nor the drawing index, nor the flip semaphore; the words a
\* later leddisplay_pixel_xy_rgb or leddisplay_pixel_fill_rgb writes are gated
\* by the cutoff in force when it runs.
C11_BrightnessActsOnLaterEncodes ==
    /\ [][ (last'.op = "set_brightness" /\ ncalls' # ncalls)
            => /\ bitplanes' = bitplanes
               /\ s_current_frame' = s_current_frame
               /\ sem_count' = sem_count
               /\ s_shift_complete_sem' = s_shift_complete_sem ]_vars
    /\ [](DrewPixel =>
            \A i \in Planes :
                AndBit(WordAt(s_current_frame, draw.y % ROWS_PER_FRAME, i, draw.x),
                       BIT_OE)
                <=> \/ draw.x = 0
                    \/ draw.x = LEDDISPLAY_WIDTH - 1
                    \/ draw.x >= CutoffColumn(s_brightness_val, i))
    /\ [](last.op = "pixel_fill" =>
            \A i \in Planes, x \in 0 .. (LEDDISPLAY_WIDTH - 1) :
                AndBit(WordAt(s_current_frame, DrawY, i, x), BIT_OE)
                <=> \/ x = 0
                    \/ x = LEDDISPLAY_WIDTH - 1
                    \/ x >= CutoffColumn(s_brightness_val, i))

\* a pixel encoded after leddisplay_set_brightness(0), beside a word that
\* was encoded at 75 percent and still has its output enabled
C11_Witness ==
    /\ DrewPixel
    /\ s_brightness_percent = 0
    /\ draw.x = DrawX
    /\ draw.y = DrawY
    /\ AndBit(WordAt(s_current_frame, DrawY, COLOR_DEPTH_BITS - 1, DrawX), BIT_OE)
    /\ ~AndBit(WordAt(s_current_frame, DrawY, COLOR_DEPTH_BITS - 1, DrawX + 1),
               BIT_OE)

\* C12: when leddisplay_init has returned ESP_OK, leddisplay_get_brightness
\* returns 75 and the cutoff is that of 75 percent, whatever brightness was
\* set before, although the buffers were cleared at brightness 0.
C12_InitLeavesDefaultBrightness ==
    (last.op = "init" /\ last.res = "ESP_OK")
        => /\ get_brightness = 75
           /\ s_brightness_val = brightness_val(75)
           /\ \A f \in 0 .. (NUM_FRAME_BUFFERS - 1), i \in Planes :
                 AndBit(WordAt(f, DrawY, i, DrawX), BIT_OE)

\* a second leddisplay_init, after leddisplay_set_brightness with another
\* value and leddisplay_shutdown
C12_Witness ==
    /\ last.op = "init"
    /\ last.res = "ESP_OK"
    /\ calls.before.op = "init"
    /\ ncalls >= 2

\* bit i of the three channels of rgb, as the bits r, gr, b of a word
ChannelBits(w, rgb, i, r, gr, b) ==
    /\ AndBit(w, r) <=> AndBit(rgb[1], 2 ^ i)
    /\ AndBit(w, gr) <=> AndBit(rgb[2], 2 ^ i)
    /\ AndBit(w, b) <=> AndBit(rgb[3], 2 ^ i)

\* C14: in each buffer and on every plane i, the word for column DrawX of
\* half-row DrawY has R1/G1/B1 equal to bit i of the colour last drawn at
\* (DrawX, DrawY) and R2/G2/B2 equal to bit i of the colour last drawn at
\* (DrawX, DrawY + R), in whatever order the two were drawn and whatever was
\* drawn elsewhere in between.
C14_BothHalvesKept ==
    (life = "up") =>
        \A f \in 0 .. (NUM_FRAME_BUFFERS - 1), i \in Planes :
            /\ ChannelBits(WordAt(f, DrawY, i, DrawX), painted[f].top, i,
                           BIT_R1, BIT_G1, BIT_B1)
            /\ ChannelBits(WordAt(f, DrawY, i, DrawX), painted[f].bot, i,
                           BIT_R2, BIT_G2, BIT_B2)

\* white drawn at the top pixel, red at its neighbour, then the mixed colour
\* at the bottom pixel
C14_Witness ==
    /\ DrewPixel
    /\ draw.x = DrawX
    /\ draw.y = DrawY + ROWS_PER_FRAME
    /\ painted[s_current_frame].top = White
    /\ painted[s_current_frame].bot = Mixed
    /\ AndBit(WordAt(s_current_frame, DrawY, COLOR_DEPTH_BITS - 1, DrawX - 1), BIT_R1)
    /\ ~AndBit(WordAt(s_current_frame, DrawY, COLOR_DEPTH_BITS - 1, DrawX - 1), BIT_G1)

----------------------------------------------------------------------------
\* Claims about the three encoders and the staging frame (SpecFrame)

\* the coordinates of the last call lie outside the panel
DrawnOutside(d) == d.x >= LEDDISPLAY_WIDTH \/ d.y >= LEDDISPLAY_HEIGHT

\* C13: a call of leddisplay_pixel_xy_rgb with x >= W or y >= H changes no
\* word of either buffer and no other state of the module; a call of
\* leddisplay_frame_xy_rgb with x >= W or y >= H leaves the staging frame
\* (and the buffers) as they are.
C13_OutsideChangesNothing ==
    /\ [][ (last'.op = "pixel_xy" /\ ncalls' # ncalls /\ DrawnOutside(draw'))
            => UNCHANGED << bitplanes, lldesc, staging, s_frames,
                            s_current_frame, s_lsb_msb_transition_bit,
                            s_dmadesc_a, s_dmadesc_b, s_brightness_val,
                            s_brightness_percent, s_shift_complete_sem,
                            sem_count, i2s >> ]_vars
    /\ [][ (last'.op = "frame_xy" /\ ncalls' # ncalls /\ DrawnOutside(draw'))
            => UNCHANGED << staging, bitplanes >> ]_vars

\* a leddisplay_pixel_xy_rgb outside the panel has returned, on a buffer
\* that an earlier call inside the panel has drawn white at (0, 0)
C13_Witness ==
    /\ last.op = "pixel_xy"
    /\ DrawnOutside(draw)
    /\ AndBit(WordAt(s_current_frame, 0, COLOR_DEPTH_BITS - 1, 0), BIT_G1)

\* bit i of a colour channel
ChannelBit(c, i) == (c \div (2 ^ i)) % 2

\* the six colour bits R1 G1 B1 R2 G2 B2 of a word that shows bit i of the
\* colour up in the top half and of the colour lo in the bottom half
SixBits(up, lo, i) ==
    ChannelBit(up[1], i) + (2 * ChannelBit(up[2], i)) + (4 * ChannelBit(up[3], i))
    + (8 * ChannelBit(lo[1], i)) + (16 * ChannelBit(lo[2], i))
    + (32 * ChannelBit(lo[3], i))

\* C15: when leddisplay_frame_update(f) has returned, for every half-row y,
\* plane i and column x the word at index x XOR 1 of (y, i) in the buffer
\* that was the drawing buffer has R1/G1/B1 equal to bit i of f[y][x] and
\* R2/G2/B2 equal to bit i of f[y + R][x]; f is not modified by the call.
C15_FrameRoundTrip ==
    /\ [](last.op = "frame_update" =>
            \A y \in 0 .. (ROWS_PER_FRAME - 1), i \in Planes,
               x \in 0 .. (LEDDISPLAY_WIDTH - 1) :
                WordAt(i2s.next, y, i, x) % 64
                    = SixBits(staging[y][x], staging[y + ROWS_PER_FRAME][x], i))
    /\ [][pc # "idle" => staging' = staging]_vars

\* a black frame with one pixel of the bottom half set to the mixed colour
\* (1, 128, 64) has been encoded: that pixel's word shows green below on
\* plane 7 and red below on plane 0, and its neighbour's word nothing
C15_Witness ==
    /\ last.op = "frame_update"
    /\ staging[DrawY][DrawX] = Black
    /\ staging[DrawY + ROWS_PER_FRAME][DrawX] = Mixed
    /\ WordAt(i2s.next, DrawY, COLOR_DEPTH_BITS - 1, DrawX) % 64 = BIT_G2
    /\ WordAt(i2s.next, DrawY, 0, DrawX) % 64 = BIT_R2
    /\ WordAt(i2s.next, DrawY, 0, Xor1(DrawX)) % 64 = 0

\* the address bits A..D, and E where the panel has it, of a word, read as
\* an integer with A the lowest bit
AddressOf(w) ==
    IF NEED_E_GPIO(Geometry) THEN (w \div BIT_A) % 32 ELSE (w \div BIT_A) % 16

\* the buffer the last call has encoded into
EncodedBuffer == IF last.op = "frame_update" THEN i2s.next ELSE s_current_frame

\* C19 as stated: on every panel type, for every half-row y, plane i and
\* column x, the address bits of the word encoded by leddisplay_pixel_xy_rgb,
\* leddisplay_pixel_fill_rgb and leddisplay_frame_update equal
\* (y - [i = 0]) mod R.
C19_AddressIsRowModR ==
    /\ DrewPixel =>
          \A i \in Planes :
              AddressOf(WordAt(s_current_frame, draw.y % ROWS_PER_FRAME, i, draw.x))
                  = ((draw.y % ROWS_PER_FRAME) - (IF i = 0 THEN 1 ELSE 0))
                        % ROWS_PER_FRAME
    /\ (last.op \in {"pixel_fill", "frame_update"}) =>
          \A y \in 0 .. (ROWS_PER_FRAME - 1), i \in Planes,
             x \in 0 .. (LEDDISPLAY_WIDTH - 1) :
              AddressOf(WordAt(EncodedBuffer, y, i, x))
                  = (y - (IF i = 0 THEN 1 ELSE 0)) % ROWS_PER_FRAME

\* C20: in both buffers, the words for column 0 and for column L-1 of
\* every half-row and plane have the OE bit set, whichever encoder wrote them
\* (leddisplay_pixel_xy_rgb, leddisplay_pixel_fill_rgb, leddisplay_frame_update
\* or the clear of leddisplay_init), in whatever colour and at whatever
\* brightness, 100 percent included.
C20_EdgeColumnsBlanked ==
    (life = "up") =>
        \A f \in 0 .. (NUM_FRAME_BUFFERS - 1),
           y \in 0 .. (ROWS_PER_FRAME - 1), i \in Planes :
            /\ AndBit(WordAt(f, y, i, 0), BIT_OE)
            /\ AndBit(WordAt(f, y, i, LEDDISPLAY_WIDTH - 1), BIT_OE)

\* a frame encoded at 100 percent: column 1 has its output enabled on the
\* top plane, column 0 has not
C20_Witness ==
    /\ last.op = "frame_update"
    /\ s_brightness_percent = 100
    /\ ~AndBit(WordAt(i2s.next, 0, COLOR_DEPTH_BITS - 1, 1), BIT_OE)
    /\ AndBit(WordAt(i2s.next, 0, COLOR_DEPTH_BITS - 1, 0), BIT_OE)

----------------------------------------------------------------------------
\* Claims about the publish step (Spec)

\* a step that is the flip request and the toggle of a publish
PublishStep ==
    \/ LeddisplayPixelUpdate
    \/ (pc = "frame_update_encode" /\ pc' = "idle")

\* C16: every publish asks the engine to flip to the buffer whose index is
\* the drawing index c at that moment and then sets c to 1 - c: c is always
\* 0 or 1, a publish that follows a publish asks for the other buffer than
\* that one did, and after a publish c is not the buffer just asked for.
C16_PublishFlipsThenToggles ==
    /\ [][ PublishStep
            => /\ i2s'.next = s_current_frame
               /\ s_current_frame' = 1 - s_current_frame
               /\ s_current_frame' # i2s'.next
               /\ (last.op \in {"pixel_update", "frame_update"}
                      => i2s'.next # i2s.next) ]_vars
    /\ [](s_current_frame \in {0, 1})

\* a publish has returned after an earlier publish: the drawing index is
\* back at the buffer the earlier one asked for
C16_Witness ==
    /\ life = "up"
    /\ pc = "idle"
    /\ last.op = "frame_update"
    /\ i2s.next = 1
    /\ s_current_frame = 0

----------------------------------------------------------------------------
\* Claims about the descriptor rings (SpecRing)

\* sum over i = from .. D-1 of 2^(i-t-1)
RECURSIVE PassesFrom(_, _)
PassesFrom(from, t) ==
    IF from >= COLOR_DEPTH_BITS THEN 0
    ELSE (2 ^ ((from - t) - 1)) + PassesFrom(from + 1, t)

\* K(t) = 1 + sum over i = t+1 .. D-1 of 2^(i-t-1)
K(t) == 1 + PassesFrom(t + 1, t)

\* the ring being traversed, and the buffer it is to reference
WalkRing == lldesc[walk.ring]

WalkBuffer == IF walk.ring = "a" THEN 0 ELSE 1

\* C17: after a successful init each ring is an array of R*K(t) descriptors
\* in which the next pointers from descriptor 0 come back to descriptor 0 of
\* the same array after exactly R*K(t) descriptors and not before, only the
\* last descriptor is marked end-of-list, and every descriptor of ring A
\* references buffer 0 and every descriptor of ring B buffer 1.
C17_RingsAreSingleCycles ==
    (life = "up") =>
        LET n == ROWS_PER_FRAME * K(s_lsb_msb_transition_bit)
        IN  /\ DOMAIN WalkRing.d = 0 .. (n - 1)
            /\ ~WalkRing.over
            /\ WalkClosed => walk.steps = n
            /\ (walk.steps = n) => walk.at = 0
            /\ walk.at \in 0 .. (n - 1)
            /\ (walk.steps = 0) =>
                  \A k \in 0 .. (n - 1) :
                      /\ (WalkRing.d[k].eof = 1) <=> (k = n - 1)
                      /\ WalkRing.d[k].eof \in {0, 1}
                      /\ WalkRing.d[k].buf = WalkBuffer

\* the traversal of ring B, of two descriptors per row, is back at
\* descriptor 0
C17_Witness ==
    /\ life = "up"
    /\ walk.ring = "b"
    /\ WalkClosed
    /\ walk.steps = 2 * ROWS_PER_FRAME
    /\ s_lsb_msb_transition_bit = COLOR_DEPTH_BITS - 2

\* C18: when a traversal of a ring is back at descriptor 0, bitplane i of
\* every row j has been emitted once if i <= t and 2^(i-t) times if i > t;
\* one descriptor of the row starts at bitplane 0 and, for each i > t,
\* 2^(i-t-1) descriptors start at bitplane i; every descriptor covers the
\* bitplanes from its first up to D-1.
C18_PlaneRepetitions ==
    (life = "up") =>
        LET t == s_lsb_msb_transition_bit
        IN  /\ WalkClosed =>
                  \A j \in 0 .. (ROWS_PER_FRAME - 1), i \in Planes :
                      /\ walk.emitted[j][i] = IF i <= t THEN 1 ELSE 2 ^ (i - t)
                      /\ walk.starts[j][i] =
                             IF i = 0 THEN 1
                             ELSE IF i > t THEN 2 ^ ((i - t) - 1) ELSE 0
            /\ (walk.steps = 0) =>
                  \A k \in DOMAIN WalkRing.d :
                      WalkRing.d[k].plane + WalkRing.d[k].size = COLOR_DEPTH_BITS

\* a complete traversal with transition bit D-3: the top bitplane of the
\* last row has been emitted four times, the one below twice, the lowest once
C18_Witness ==
    /\ life = "up"
    /\ WalkClosed
    /\ s_lsb_msb_transition_bit = COLOR_DEPTH_BITS - 3
    /\ walk.emitted[ROWS_PER_FRAME - 1][COLOR_DEPTH_BITS - 1] = 4
    /\ walk.emitted[ROWS_PER_FRAME - 1][COLOR_DEPTH_BITS - 2] = 2
    /\ walk.emitted[ROWS_PER_FRAME - 1][0] = 1

----------------------------------------------------------------------------
\* Claims about the words of both buffers after any calls (SpecFrame)

Frames == 0 .. (NUM_FRAME_BUFFERS - 1)

HalfRows == 0 .. (ROWS_PER_FRAME - 1)

Columns == 0 .. (LEDDISPLAY_WIDTH - 1)

\* C21: in both buffers, after leddisplay_init and any calls of
\* leddisplay_pixel_xy_rgb, leddisplay_pixel_fill_rgb and
\* leddisplay_frame_update (with its publish), the word for column x of every
\* half-row and plane has the LAT bit set if and only if x = L - 1.
C21_LatchOnlyAtLastColumn ==
    (life = "up") =>
        \A at \in { Xor1(PIXELS_PER_LATCH - 1) } :
            \A f \in Frames, y \in HalfRows, i \in Planes :
                \A pixel \in { bitplanes[f][y][i] } :
                    \A ix \in DOMAIN pixel :
                        AndBit(pixel[ix], BIT_LAT) <=> (ix = at)

\* the last pixel of the panel has been drawn in the mixed colour: its word
\* on the top plane carries the latch and green below, its neighbour's word
\* no latch
C21_Witness ==
    /\ DrewPixel
    /\ draw.x = LEDDISPLAY_WIDTH - 1
    /\ draw.y = LEDDISPLAY_HEIGHT - 1
    /\ AndBit(WordAt(s_current_frame, ROWS_PER_FRAME - 1, COLOR_DEPTH_BITS - 1,
                     LEDDISPLAY_WIDTH - 1), BIT_LAT)
    /\ AndBit(WordAt(s_current_frame, ROWS_PER_FRAME - 1, COLOR_DEPTH_BITS - 1,
                     LEDDISPLAY_WIDTH - 1), BIT_G2)
    /\ ~AndBit(WordAt(s_current_frame, ROWS_PER_FRAME - 1, COLOR_DEPTH_BITS - 1,
                      LEDDISPLAY_WIDTH - 2), BIT_LAT)

\* the colour bits of the half of the panel that row y_coord lies in show bit
\* i of rgb in the word w
HalfShows(w, y_coord, rgb, i) ==
    IF y_coord > ROWS_PER_FRAME - 1
    THEN ChannelBits(w, rgb, i, BIT_R2, BIT_G2, BIT_B2)
    ELSE ChannelBits(w, rgb, i, BIT_R1, BIT_G1, BIT_B1)

\* C22: the word an encoder computes for column x of (half-row y, plane i) is
\* stored at index x XOR 1 of pixel[] of that row and plane, so column 0's
\* word is at index 1 and column 1's at index 0; for x < W and y < H the row,
\* plane and index that leddisplay_pixel_xy_rgb reads and writes, and the
\* indices the loops of leddisplay_pixel_fill_rgb and leddisplay_frame_update
\* write, lie in [0,R) x [0,D) x [0,L), and the loops write every index.
C22_SwappedAndInside ==
    /\ DrewPixel =>
          /\ xy_row(Geometry, draw.y) \in HalfRows
          /\ tmp_x_coord(draw.x) \in Columns
          /\ tmp_x_coord(draw.x) = Xor1(draw.x)
          /\ \A i \in Planes :
                HalfShows(bitplanes[s_current_frame][xy_row(Geometry, draw.y)][i]
                              [Xor1(draw.x)],
                          draw.y, draw.rgb, i)
    /\ (last.op \in {"pixel_fill", "frame_update"}) =>
          /\ { tmp_x_coord(x) : x \in Columns } = Columns
          /\ \A x \in Columns : tmp_x_coord(x) = Xor1(x)
          /\ \A y \in HalfRows, i \in Planes :
                \A pixel \in { bitplanes[EncodedBuffer][y][i] } :
                    /\ DOMAIN pixel = Columns
                    /\ AndBit(pixel[1], BIT_OE)
                    /\ (CutoffColumn(s_brightness_val, i) > 1)
                          => ~AndBit(pixel[0], BIT_OE)

\* the whole buffer has been filled with red at 75 percent: on the top plane
\* the word at index 1 has its output disabled as column 0 has, the word at
\* index 0 shows red with its output enabled
C22_Witness ==
    /\ last.op = "pixel_fill"
    /\ s_brightness_percent = 75
    /\ AndBit(bitplanes[s_current_frame][DrawY][COLOR_DEPTH_BITS - 1][1], BIT_OE)
    /\ ~AndBit(bitplanes[s_current_frame][DrawY][COLOR_DEPTH_BITS - 1][0], BIT_OE)
    /\ AndBit(bitplanes[s_current_frame][DrawY][COLOR_DEPTH_BITS - 1][0], BIT_R1)

----------------------------------------------------------------------------
\* Claims about the pixel clocks of a traversal (SpecBcm)

Dist(a, b) == IF a >= b THEN a - b ELSE b - a

\* the totals c[0], ..., c[D-1] of a row stand in the ratio 2^i : 1 to c[0],
\* up to the rounding of the gate: less than two columns of bitplane 0
InRatio(c) == \A i \in Planes : Dist(c[i], (2 ^ i) * c[0]) < 2 ^ (i + 1)

\* C23 as stated: after one traversal of a ring, for each row and each plane
\* i, the number of words of plane i with OE clear times the number of times
\* plane i is emitted is 2^i times that of plane 0, up to the rounding of the
\* brightness gate, for every t and every cutoff.
C23_OwnWordsInRatio ==
    WalkClosed => \A j \in HalfRows : InRatio(walk.own[j])

\* C23 as amended: after one traversal of a ring, for each row and each plane
\* i, the number of enabled pixel clocks during which plane i is on the panel
\* (the words with OE clear that are emitted right after the words of plane
\* i, whose data they shift in while plane i is shown) is 2^i times that of
\* plane 0, up to the rounding of the brightness gate, for every t and every
\* cutoff.
C23_ShownPlanesInRatio ==
    WalkClosed => \A j \in HalfRows : InRatio(walk.shown[j])

\* a traversal at 75 percent on the 32 pixel wide panel with transition bit
\* D-2: the top plane is shown for 46 clocks, the planes below for 23, 11 and
\* 5, while the words of plane 0 themselves have 23 enabled clocks
C23_Witness ==
    /\ WalkClosed
    /\ last.op = "pixel_fill"
    /\ s_lsb_msb_transition_bit = COLOR_DEPTH_BITS - 2
    /\ s_brightness_val = 24
    /\ walk.shown[0][COLOR_DEPTH_BITS - 1] = 46
    /\ walk.shown[0][COLOR_DEPTH_BITS - 2] = 23
    /\ walk.shown[0][COLOR_DEPTH_BITS - 3] = 11
    /\ walk.shown[0][COLOR_DEPTH_BITS - 4] = 5
    /\ walk.own[0][0] = 23

----------------------------------------------------------------------------
\* Claims about the completion callback (Spec)

\* what the producer's calls own: the words of both buffers, the descriptors,
\* the drawing index, the brightness and the module's allocations
ProducerState ==
    << bitplanes, lldesc, s_current_frame, s_brightness_val,
       s_brightness_percent, s_frames, s_dmadesc_a, s_dmadesc_b,
       s_lsb_msb_transition_bit, s_shift_complete_sem, heap, staging >>

\* C24: the completion callback, run at an end-of-list of the engine,
\* leaves the flip semaphore available, whether it was available before or
\* not, and changes no buffer word, descriptor, drawing index or brightness
\* value; the semaphore never holds more than one token, and no other step
\* adds a token to it.
C24_CallbackOnlyGives ==
    /\ [][ (EngineEndOfList /\ i2s.cb)
            => /\ sem_count' = 1
               /\ UNCHANGED ProducerState ]_vars
    /\ [][ (sem_count' > sem_count)
            => /\ i2s.running /\ i2s.cb /\ eof_seen'
               /\ UNCHANGED ProducerState ]_vars
    /\ [](sem_count \in {0, 1})

\* the callback has run since leddisplay_init returned and no publish has
\* taken the token: the semaphore, created empty, is available
C24_Witness ==
    /\ life = "up"
    /\ last.op = "init"
    /\ eof_seen
    /\ sem_count = 1
    /\ i2s.running

----------------------------------------------------------------------------
\* Claims about fills at two brightnesses (SpecMono)

\* buffer f holds a fill with white
FilledWhite(f) == painted[f].top = White /\ painted[f].bot = White

\* C25: with the same transition bit t and the same fill colour, when one
\* buffer was encoded at percent p1 and the other at p2 >= p1, every row of
\* every plane i > t has at most as many columns with OE clear in the first
\* as in the second.
C25_BrighterEnablesNoFewer ==
    \A f1 \in Frames, f2 \in Frames :
        (/\ life = "up"
         /\ FilledWhite(f1)
         /\ FilledWhite(f2)
         /\ painted[f1].percent <= painted[f2].percent) =>
            \A y \in HalfRows, i \in Planes :
                (i > s_lsb_msb_transition_bit) =>
                    enabled_clocks(bitplanes[f1][y][i])
                        <= enabled_clocks(bitplanes[f2][y][i])

\* one buffer filled at 50 percent and then the other at 100 percent, on
\* the 32 pixel wide panel: 15 and 30 enabled columns on the top plane
C25_Witness ==
    /\ life = "up"
    /\ FilledWhite(0)
    /\ FilledWhite(1)
    /\ painted[0].percent = 50
    /\ painted[1].percent = 100
    /\ s_lsb_msb_transition_bit < COLOR_DEPTH_BITS - 1
    /\ enabled_clocks(bitplanes[0][DrawY][COLOR_DEPTH_BITS - 1]) = 15
    /\ enabled_clocks(bitplanes[1][DrawY][COLOR_DEPTH_BITS - 1]) = 30

\* C26: after leddisplay_set_brightness(0), every word encoded by
\* leddisplay_pixel_fill_rgb, leddisplay_pixel_xy_rgb or
\* leddisplay_frame_update has the OE bit set, on every column and plane, for
\* every transition bit and colour.  The brightness is set right after
\* leddisplay_init, so that every encoder call of the state was made under it.
C26_DarkAtZero ==
    (life = "up" /\ s_brightness_percent = 0) =>
        \A f \in Frames, y \in HalfRows, i \in Planes :
            \A pixel \in { bitplanes[f][y][i] } :
                \A ix \in DOMAIN pixel : AndBit(pixel[ix], BIT_OE)

\* at brightness 0 the red frame has been encoded into buffer 0, buffer 1 has
\* been filled with white and its last pixel drawn in the mixed colour: the
\* words carry their colours on a low and on a high plane, and the OE bit
C26_Witness ==
    /\ DrewPixel
    /\ s_brightness_percent = 0
    /\ s_lsb_msb_transition_bit = DrawTransitionBit
    /\ s_current_frame = 1
    /\ painted[0].top = Red
    /\ painted[1].top = White
    /\ draw.x = LEDDISPLAY_WIDTH - 1
    /\ draw.y = LEDDISPLAY_HEIGHT - 1
    /\ \A w \in { WordAt(0, DrawY, 1, DrawX) } :
          AndBit(w, BIT_R1) /\ AndBit(w, BIT_OE)
    /\ \A w \in { WordAt(1, DrawY, COLOR_DEPTH_BITS - 1, DrawX) } :
          AndBit(w, BIT_B2) /\ AndBit(w, BIT_OE)
    /\ \A w \in { WordAt(1, ROWS_PER_FRAME - 1, 1, LEDDISPLAY_WIDTH - 1) } :
          ~AndBit(w, BIT_R2) /\ AndBit(w, BIT_B1) /\ AndBit(w, BIT_OE)
\* C27: over any sequence of leddisplay_init calls, succeeding or failing at
\* any stage, and leddisplay_shutdown calls, built without static allocation,
\* the flip semaphore is deleted at most once per creation and never when it
\* was not created.  A vSemaphoreDelete of an absent or deleted semaphore is
\* the one step after which the program may be found aborted.
C27_DeletesOnlyLiveSemaphore ==
    (~cfg.static_alloc) => pc # "aborted"
\* C28: the reference loop, leddisplay_pixel_xy_rgb(x, y, r, g, b) for every
\* pixel of the panel in any visiting order and on any prior content, leaves
\* the drawing buffer as leddisplay_pixel_fill_rgb(r, g, b) leaves it under
\* the same brightness and transition bit, and the other buffer alone.
C28_FillEqualsLoop ==
    (last.op = "pixel_fill_by_xy") =>
        /\ bitplanes[s_current_frame] =
              pixel_fill_buffer(Geometry, s_lsb_msb_transition_bit,
                                s_brightness_val, draw.rgb)
        /\ bitplanes[next_frame(s_current_frame)] =
              clear_frame_buffers(Geometry, s_lsb_msb_transition_bit,
                                  0)[next_frame(s_current_frame)]

\* the loop has run backwards at full brightness over a buffer filled with
\* white at the default brightness: a word of the top plane shows the mixed
\* colour in both halves and output enabled beyond the default cutoff
C28_Witness ==
    /\ last.op = "pixel_fill_by_xy"
    /\ last.res = "backwards"
    /\ s_brightness_percent = 100
    /\ s_lsb_msb_transition_bit = 0
    /\ LEDDISPLAY_HEIGHT = 32
    /\ \A w \in { WordAt(s_current_frame, DrawY, COLOR_DEPTH_BITS - 1,
                          LEDDISPLAY_WIDTH - 2) } :
          /\ AndBit(w, BIT_G1) /\ AndBit(w, BIT_G2)
          /\ ~AndBit(w, BIT_R1) /\ ~AndBit(w, BIT_B2)
          /\ ~AndBit(w, BIT_OE)
\* the step is a call of leddisplay_pixel_xy_rgb with a pixel of the panel
DrawsPixel ==
    /\ ncalls' = ncalls + 1
    /\ last'.op = "pixel_xy"
    /\ draw'.x < LEDDISPLAY_WIDTH
    /\ draw'.y < LEDDISPLAY_HEIGHT

\* C29: an in-range leddisplay_pixel_xy_rgb(x, y, ...) writes the D words at
\* (half-row y mod R, plane i, index x XOR 1), i in 0..D-1, of the current
\* drawing buffer, which then show the colour of the call in the half of y;
\* every other word of that buffer, the whole other buffer, the drawing
\* index, the brightness state and the semaphore are unchanged.
C29_WritesOnlyItsWords ==
    [][ DrawsPixel =>
          /\ UNCHANGED << s_current_frame, s_brightness_val,
                          s_brightness_percent, s_shift_complete_sem,
                          sem_count >>
          /\ DOMAIN bitplanes' = Frames
          /\ \A f \in Frames \ {s_current_frame} :
                bitplanes'[f] = bitplanes[f]
          /\ LET row == draw'.y % ROWS_PER_FRAME
                 at  == Xor1(draw'.x)
             IN  /\ DOMAIN bitplanes'[s_current_frame] = HalfRows
                 /\ \A y \in HalfRows \ {row} :
                       bitplanes'[s_current_frame][y] =
                           bitplanes[s_current_frame][y]
                 /\ DOMAIN bitplanes'[s_current_frame][row] = Planes
                 /\ \A i \in Planes :
                       \A new \in { bitplanes'[s_current_frame][row][i] } :
                           /\ new = [bitplanes[s_current_frame][row][i]
                                        EXCEPT ![at] = new[at]]
                           /\ HalfShows(new[at], draw'.y, draw'.rgb, i)
      ]_vars

\* the pixel (DrawX, DrawY + R) of the bottom half has been drawn in red over
\* a buffer filled with red at full brightness, of which a word of another
\* row and the other word of the pair still stand
C29_Witness ==
    /\ DrewPixel
    /\ draw.x = DrawX
    /\ draw.y = DrawY + ROWS_PER_FRAME
    /\ draw.rgb = Red
    /\ painted[s_current_frame].top = Red
    /\ s_brightness_percent = 100
    /\ AndBit(WordAt(s_current_frame, DrawY, 0, DrawX), BIT_R2)
    /\ AndBit(WordAt(s_current_frame, DrawY, 0, Xor1(DrawX)), BIT_R2)
    /\ AndBit(WordAt(s_current_frame, DrawY + 1, 0, DrawX), BIT_R1)
\* the memory of descriptor d lies in row j of buffer f, from the start of
\* bitplane first to the end of the row
InsideRow(d, f, j, first) ==
    /\ d.buf = f
    /\ d.row = j
    /\ d.plane = first
    /\ d.size = COLOR_DEPTH_BITS - first
    /\ d.plane \in Planes
    /\ d.plane + d.size <= COLOR_DEPTH_BITS

\* C30: when leddisplay_init has built the rings, for every t in 0..D-1 and
\* every supported R, no descriptor was written at or past index R*K(t), the
\* index has ended at R*K(t), every slot below has been written, and the
\* memory of every descriptor lies inside row j of its own buffer: the first
\* of the K(t) descriptors of row j starts at bitplane 0 and has D*L words,
\* every other starts at a bitplane i > t and has (D-i)*L words.
C30_RingBuildStaysInside ==
    (life = "up" /\ walk.steps = 0) =>
        \A n \in { K(s_lsb_msb_transition_bit) } :
            /\ lldesc.off = ROWS_PER_FRAME * n
            /\ \A f \in Frames :
                  \A ring \in { IF f = 0 THEN lldesc.a ELSE lldesc.b } :
                      /\ ~ring.over
                      /\ DOMAIN ring.d = 0 .. ((ROWS_PER_FRAME * n) - 1)
                      /\ \A k \in DOMAIN ring.d :
                            \A d \in { ring.d[k] } :
                                /\ d # RawDesc
                                /\ InsideRow(d, f, k \div n, d.plane)
                                /\ (k % n = 0) => d.plane = 0
                                /\ (k % n # 0) =>
                                      d.plane > s_lsb_msb_transition_bit

\* the rings of the tallest panel with transition bit D-3, of four
\* descriptors per row: the index has ended at 4*R and the last descriptor
\* of ring B is the top bitplane of the last row of buffer 1
C30_Witness ==
    /\ life = "up"
    /\ walk.steps = 0
    /\ s_lsb_msb_transition_bit = COLOR_DEPTH_BITS - 3
    /\ ROWS_PER_FRAME = 32
    /\ lldesc.off = 128
    /\ lldesc.b.d[127].buf = 1
    /\ lldesc.b.d[127].row = 31
    /\ lldesc.b.d[127].plane = COLOR_DEPTH_BITS - 1
    /\ lldesc.b.d[127].size = 1
    /\ lldesc.a.d[124].plane = 0
    /\ lldesc.a.d[124].size = COLOR_DEPTH_BITS
====
